---- MODULE Spec2Model ----
(***************************************************************************)
(* The real-time connection and synchronisation engine of the SecureConnect *)
(* chat client:                                                             *)
(*   - WebSocketClient   (pages/home-page.tsx, class WebSocketClient)       *)
(*   - useWebSocket hook (hooks/use-websocket.tsx, over WebSocketManager)   *)
(*   - ChatWindow's reconciler of inbound events (chat-window component)    *)
(* The three objects share no field.  `focus' fixes, per behaviour, the     *)
(* object whose operations are explored ("client", "hook", and for the      *)
(* ChatWindow "chat" or "typing", the family of events it receives); the    *)
(* others keep their initial state.  Execution is single-threaded: every    *)
(* action is one callback run to completion (a public call, a socket        *)
(* event, a timer firing).                                                  *)
(***************************************************************************)
EXTENDS Integers, Sequences, FiniteSets, TLC

(* ------------------------------ bounds --------------------------------- *)
\* sockets the WebSocketClient may construct in one behaviour
MaxSockets == 2
\* frames the application passes to WebSocketClient.send in one behaviour
MaxMsgs == 2
\* sockets the useWebSocket hook may construct in one behaviour
HookMaxSockets == 6
\* messages the server holds in one behaviour
MaxPosted == 2
\* the largest value of reconnectAttempts a behaviour is followed to
MaxAttempts == 2
\* callbacks registered for one event type
MaxListeners == 2
\* sockets the hook may construct while its instances are followed
MaxInstanceSockets == 2

(* ------------------------- program constants --------------------------- *)
MAX_RECONNECT_ATTEMPTS == 15
\* MAX_RECONNECT_ATTEMPTS of hooks/use-websocket.tsx
HOOK_MAX_RECONNECT_ATTEMPTS == 5
\* the typing indicator's expiry, in seconds (setTimeout(..., 3000))
TYPING_EXPIRY == 3

SocketIds == 1..MaxSockets
UserIds == {1}
NoEvent == "none"
\* the close events a socket can deliver: a failure (error event, then close),
\* an ordinary close, and the server's close 1000 "New connection established"
CloseKinds == {"error", "close", "superseded"}
Ephemeral == {"heartbeat", "typing"}
SendTypes == {"message_reaction", "typing"}
\* the event types callers subscribe to: the wildcard 'message' and the type
\* of an application frame.  Nobody subscribes to 'open', 'close' or 'error',
\* so the triggerEvent calls for them in handleOpen, handleClose and
\* handleError call nothing
SubscribedTypes == {"message", "new_message"}
\* the callbacks a caller subscribes: one that returns, one that throws, and
\* one that calls off(type, itself) for the type it is invoked for
Callbacks == {"f", "thrower", "leaver"}
\* the frames a socket delivers: text that JSON.parse rejects, or an object
\* with a type ("" when it has none) and a payload that is absent, falsy
\* (null, 0, "", false) or an object
Unparsable == [parses |-> FALSE, type |-> "", payload |-> "absent"]
HeartbeatAck == [parses |-> TRUE, type |-> "heartbeat_ack", payload |-> "absent"]
Frames ==
  {Unparsable} \cup
  [parses : {TRUE}, type : {"heartbeat_ack", "new_message", ""},
   payload : {"absent", "falsy", "object"}]

VARIABLES
  focus,
  \* ---- WebSocketClient fields
  socket,              \* this.socket: 0 is null, else a socket id
  isConnecting,
  connectionState,
  userId,              \* 0 is null
  reconnectAttempts,
  reconnectTimeout,    \* handle of the last reconnect timer set, 0 is null
  heartbeatInterval,   \* TRUE while the heartbeat interval is running
  lastHeartbeatSent,   \* 0 is null, else the sentTime of the last heartbeat
  messageQueue,
  throttled,           \* Date.now() - lastConnectionAttempt < MIN_CONNECTION_INTERVAL
  \* ---- the browser: sockets and timers of the WebSocketClient
  readyState,          \* per socket id; "NONE" before construction
  onclose,             \* per socket id: handleClose still attached
  nextSocket,
  reconnectTimers,     \* handles of the pending reconnect timers
  freshTimers,         \* those set after the last connection attempt
  authTimers,          \* number of pending 100 ms authentication timers
  hbTimers,            \* sentTimes of the pending 10 s heartbeat-ack timers
  written,             \* the frames the latest step wrote: <<socket id, frame>>
  nextMsg,
  call,                \* the latest step, when it is a public send (with its
                       \* result), a public connect, the reconnect timer's
                       \* callback, or a frame delivered to the subscribers
  listeners,           \* per subscribed event type: the array of callbacks,
                       \* in the order of their registration; a type the map
                       \* does not hold is the empty array (on, off and
                       \* triggerEvent treat the two alike)
  invoked,             \* the callbacks the latest step invoked, in order
  \* ---- WebSocketManager fields (ws = manager.current in useWebSocket)
  ws_socket,           \* 0 is null, else a socket id
  ws_isConnecting,
  ws_pendingReconnect, \* 0 is null, else a timer handle
  ws_reconnectAttempts,
  ws_throttled,        \* now - ws.lastConnectionAttempt < MIN_CONNECTION_INTERVAL
  \* ---- useWebSocket state, and the browser's sockets and timers
  isConnected,
  ws_readyState,       \* per socket id; "NONE" before construction
  ws_nextSocket,
  ws_timers,           \* handles of the pending timers that re-invoke connect
  ws_freshTimers,      \* the throttle-deferral timers set since the last attempt
  ws_event,            \* the latest step, when it is a socket's close event
  toast,               \* the latest step showed the "Connection issue" toast
  closesSinceOpen,     \* unexpected close events since the last open event
  closesSinceReset,    \* ... since the last open event or reconnect() call
  ws_listeners,        \* per message type: whether the map holds the type, and
                       \* the callbacks of its Set, in insertion order
  ws_unsubscribe,      \* the unsubscribe functions registerListener returned:
                       \* <<type, callback>>, what each closure captured
  ws_invoked,          \* the listeners the latest step invoked, in order
  \* ---- ChatWindow: props, state, refs, and the query cache it writes
  chatId,              \* the open chat (selectedChat.id)
  lastMessage,         \* useWebSocket's lastMessage; type "null" is null
  loaded,              \* the chats whose messages query holds data
  messages,            \* per chat: the cached data of /api/chats/<id>/messages
  typingUsers,
  typingTimeoutRef,    \* per user: handle of the last expiry timer, 0 is none
  typingTimers,        \* the pending expiry timers: handle, user, seconds left
  sinceIndicator,      \* per user: seconds since the last typing_indicator
                       \* event received for the user, up to LongAgo
  posted,              \* the messages the server holds, in posting order
  effectRun,           \* what made the latest step run the lastMessage effect:
                       \* "received", "selected", or "none"
  \* ---- ChatProvider: state, and the query cache it invalidates
  selectedChat,        \* the id of the selected chat, 0 is null
  cp_lastMessage,      \* lastMessage of the provider's useWebSocket
  staleQueries,        \* the query keys invalidated and not yet refetched
  pendingRender,       \* a setSelectedChat made by the effect awaits its render
  invalidated,         \* the query keys the latest step invalidated
  toasts,              \* the titles of the toasts the latest step showed
  cp_effectRun,        \* what made the latest step run the provider's effect:
                       \* "received", "selected", "rendered", or "none"
  \* ---- the components that call useWebSocket(), each with its own state
  mounted,             \* the instances that are mounted
  hk_isConnected,      \* per instance: its isConnected state
  hk_lastMessage,      \* per instance: its lastMessage state
  handlersOf,          \* per socket id: the instance whose connect attached
                       \* the socket's handlers ("gone" once it has unmounted)
  connectOf,           \* <<timer handle, instance>>: the instance whose
                       \* connect a pending timer calls
  hk_event             \* the latest step, when it is an event of a socket

clientVars == <<socket, isConnecting, connectionState, userId, reconnectAttempts,
                reconnectTimeout, heartbeatInterval, lastHeartbeatSent,
                messageQueue, throttled, readyState, onclose, nextSocket,
                reconnectTimers, freshTimers, authTimers, hbTimers, written,
                nextMsg, call, listeners, invoked>>

hookVars == <<ws_socket, ws_isConnecting, ws_pendingReconnect, ws_reconnectAttempts,
              ws_throttled, isConnected, ws_readyState, ws_nextSocket, ws_timers,
              ws_freshTimers, ws_event, toast, closesSinceOpen, closesSinceReset,
              ws_listeners, ws_unsubscribe, ws_invoked>>

chatVars == <<chatId, lastMessage, loaded, messages, typingUsers, typingTimeoutRef,
              typingTimers, sinceIndicator, posted, effectRun>>

providerVars == <<selectedChat, cp_lastMessage, staleQueries, pendingRender,
                  invalidated, toasts, cp_effectRun>>

instanceVars == <<mounted, hk_isConnected, hk_lastMessage, handlersOf, connectOf,
                  hk_event>>

vars == <<focus, clientVars, hookVars, chatVars, providerVars, instanceVars>>

NoCall == [op |-> "none"]

(* The state of the WebSocketClient and of its sockets and timers as one   *)
(* record, so that the methods below compose as they do in the source.     *)
Cur ==
  [socket |-> socket, isConnecting |-> isConnecting,
   connectionState |-> connectionState, userId |-> userId,
   reconnectAttempts |-> reconnectAttempts, reconnectTimeout |-> reconnectTimeout,
   heartbeatInterval |-> heartbeatInterval, lastHeartbeatSent |-> lastHeartbeatSent,
   messageQueue |-> messageQueue, throttled |-> throttled,
   readyState |-> readyState, onclose |-> onclose, nextSocket |-> nextSocket,
   reconnectTimers |-> reconnectTimers, freshTimers |-> freshTimers,
   authTimers |-> authTimers, hbTimers |-> hbTimers, written |-> <<>>,
   nextMsg |-> nextMsg, ret |-> FALSE,
   listeners |-> listeners, invoked |-> <<>>]

\* the behaviours of the client are followed from a fresh client ("client"),
\* or from one that is one failure short of the cap ("cap")
ClientFocus == {"client", "cap"}

\* reconnectAttempts at the start: 0, or MAX_RECONNECT_ATTEMPTS - 1, the state
\* after that many rounds of connect(u) with a failing constructor (handleClose
\* counts it) and disconnect() (which leaves the counter alone)
AttemptsBase == IF focus = "cap" THEN MAX_RECONNECT_ATTEMPTS - 1 ELSE 0

Commit(w, c) ==
  /\ \/ w.reconnectAttempts <= MaxAttempts
     \/ /\ focus = "cap"
        /\ w.reconnectAttempts >= AttemptsBase
        /\ w.reconnectAttempts <= AttemptsBase + MaxAttempts
  /\ socket' = w.socket
  /\ isConnecting' = w.isConnecting
  /\ connectionState' = w.connectionState
  /\ userId' = w.userId
  /\ reconnectAttempts' = w.reconnectAttempts
  /\ reconnectTimeout' = w.reconnectTimeout
  /\ heartbeatInterval' = w.heartbeatInterval
  /\ lastHeartbeatSent' = w.lastHeartbeatSent
  /\ messageQueue' = w.messageQueue
  /\ throttled' = w.throttled
  /\ readyState' = w.readyState
  /\ onclose' = w.onclose
  /\ nextSocket' = w.nextSocket
  /\ reconnectTimers' = w.reconnectTimers
  /\ freshTimers' = w.freshTimers
  /\ authTimers' = w.authTimers
  /\ hbTimers' = w.hbTimers
  /\ written' = w.written
  /\ nextMsg' = w.nextMsg
  /\ call' = c
  /\ listeners' = w.listeners
  /\ invoked' = w.invoked
  /\ UNCHANGED <<focus, hookVars, chatVars, providerVars, instanceVars>>

\* a timer handle, or a timestamp, that no pending timer holds: the smallest
\* such number (handles and timestamps are only ever compared for equality)
Fresh(used) == CHOOSE n \in 1..(Cardinality(used) + 1) :
                 /\ n \notin used
                 /\ \A m \in 1..(Cardinality(used) + 1) : m \notin used => n <= m

\* clearTimeout(handle): a fired or cleared handle cancels nothing
ClearTimeout(timers, handle) == timers \ {handle}

\* a close() that leaves the socket as it is
KeepSocket(rs, s) == rs

\* WebSocket.close(): CONNECTING and OPEN sockets start closing
CloseSocket(rs, s) ==
  IF rs[s] \in {"CONNECTING", "OPEN"} THEN [rs EXCEPT ![s] = "CLOSING"] ELSE rs

\* WebSocketClient.isConnected
IsConnected(w) == w.socket # 0 /\ w.readyState[w.socket] = "OPEN"

\* WebSocketClient.on(type, callback)
On(w, type, callback) == [w EXCEPT !.listeners[type] = Append(@, callback)]

\* Array.prototype.indexOf: the first index holding x, 0 when there is none
IndexOf(arr, x) ==
  IF \E i \in DOMAIN arr : arr[i] = x
    THEN CHOOSE i \in DOMAIN arr :
           arr[i] = x /\ \A j \in DOMAIN arr : arr[j] = x => i <= j
    ELSE 0

\* Array.prototype.splice(index, 1), on 1-based indexes
Splice(arr, index) ==
  SubSeq(arr, 1, index - 1) \o SubSeq(arr, index + 1, Len(arr))

\* WebSocketClient.off(type, callback): the splice is done on the array the
\* map holds
Off(w, type, callback) ==
  LET index == IndexOf(w.listeners[type], callback)
  IN  IF index # 0
        THEN [w EXCEPT !.listeners[type] = Splice(@, index)]
        ELSE w

\* one call of a subscriber from triggerEvent's forEach, in its try block:
\* what the subscriber throws is caught and logged
Invoke(w, type, callback, arg) ==
  LET w1 == [w EXCEPT !.invoked =
               Append(@, [type |-> type, callback |-> callback, arg |-> arg])]
  IN  IF callback = "leaver" THEN Off(w1, type, callback) ELSE w1

\* Array.prototype.forEach over the array of the type: the length is read
\* once, at the start, and an index the array no longer holds when its turn
\* comes is skipped
RECURSIVE ForEach(_, _, _, _, _)
ForEach(w, type, arg, k, len) ==
  IF k > len THEN w
  ELSE IF k <= Len(w.listeners[type])
    THEN ForEach(Invoke(w, type, w.listeners[type][k], arg), type, arg, k + 1, len)
    ELSE ForEach(w, type, arg, k + 1, len)

\* WebSocketClient.triggerEvent(type, data): this.listeners.get(type) || []
TriggerEvent(w, type, arg) ==
  IF type \in SubscribedTypes
    THEN ForEach(w, type, arg, 1, Len(w.listeners[type]))
    ELSE w

\* a handleClose that knows no cap: every close but the supersede close sets a
\* reconnect timer
HandleCloseUncapped(w, event) ==
  LET w1 == [w EXCEPT !.isConnecting = FALSE, !.connectionState = "disconnected"]
      cleared == ClearTimeout(w1.reconnectTimers, w1.reconnectTimeout)
      h == Fresh(cleared)
  IN  IF event = "superseded" THEN w1
      ELSE [w1 EXCEPT !.reconnectAttempts = @ + 1,
                      !.reconnectTimers = cleared \cup {h},
                      !.freshTimers = (@ \cap cleared) \cup {h},
                      !.reconnectTimeout = h]

\* WebSocketClient.handleClose(event?)
HandleClose(w, event) ==
  LET w1 == [w EXCEPT !.isConnecting = FALSE, !.connectionState = "disconnected"]
      w2 == [w1 EXCEPT !.reconnectAttempts = @ + 1]
      cleared == IF w2.reconnectTimeout # 0
                   THEN ClearTimeout(w2.reconnectTimers, w2.reconnectTimeout)
                   ELSE w2.reconnectTimers
      h == Fresh(cleared)
  IN  IF event = "superseded" THEN w1
      ELSE IF w2.reconnectAttempts > MAX_RECONNECT_ATTEMPTS THEN w2
      ELSE [w2 EXCEPT !.reconnectTimers = cleared \cup {h},
                      !.freshTimers = (@ \cap cleared) \cup {h},
                      !.reconnectTimeout = h]

\* queueing without the test of the type
EnqueueAll(w, data) == [w EXCEPT !.messageQueue = Append(@, data)]

\* the queueing both failure branches of send perform
Enqueue(w, data) ==
  IF data.type \notin Ephemeral
    THEN [w EXCEPT !.messageQueue = Append(@, data)]
    ELSE w

\* WebSocketClient.send(data): ret is the boolean it returns.  JSON.stringify
\* throws on data it cannot serialise (data.bad), inside the try block.
Send(w, data) ==
  IF IsConnected(w)
    THEN IF ~data.bad
           THEN [w EXCEPT !.written = Append(@, <<w.socket, data>>), !.ret = TRUE]
           ELSE [HandleClose(Enqueue(w, data), NoEvent) EXCEPT !.ret = FALSE]
    ELSE [Enqueue(w, data) EXCEPT !.ret = FALSE]

\* WebSocketClient.closeConnection
CloseConnection(w) ==
  LET w1 == [w EXCEPT !.heartbeatInterval = FALSE]
  IN  IF w1.socket # 0
        THEN [w1 EXCEPT !.onclose[w1.socket] = FALSE,
                        !.readyState = CloseSocket(@, w1.socket),
                        !.socket = 0]
        ELSE w1

\* WebSocketClient.connect(userId); ctorThrows: new WebSocket(url) throws, and
\* no socket comes to be
Connect(w, u, ctorThrows) ==
  IF w.isConnecting \/ u = 0 THEN w
  ELSE IF w.throttled THEN w
  ELSE LET w1 == [w EXCEPT !.throttled = TRUE, !.freshTimers = {},
                           !.isConnecting = TRUE,
                           !.connectionState = "connecting", !.userId = u]
           w2 == CloseConnection(w1)
           s  == w2.nextSocket
       IN  IF ctorThrows
             THEN HandleClose(w2, NoEvent)
             ELSE [w2 EXCEPT !.nextSocket = s + 1, !.socket = s,
                             !.readyState[s] = "CONNECTING",
                             !.onclose[s] = TRUE]

AuthFrame == [type |-> "authenticate", id |-> 0, bad |-> FALSE]

\* a flush from the newest frame to the oldest
RECURSIVE FlushQueueReversed(_, _)
FlushQueueReversed(w, queueCopy) ==
  IF queueCopy = <<>> THEN w
  ELSE FlushQueueReversed(Send(w, queueCopy[Len(queueCopy)]),
                          SubSeq(queueCopy, 1, Len(queueCopy) - 1))

\* the forEach over the copy of the queue in handleOpen's timer
RECURSIVE FlushQueue(_, _)
FlushQueue(w, queueCopy) ==
  IF queueCopy = <<>> THEN w
  ELSE FlushQueue(Send(w, Head(queueCopy)), Tail(queueCopy))

\* the callback of the 100 ms timer handleOpen sets
Authenticate(w) ==
  LET w1 == Send(w, AuthFrame)
  IN  IF w1.ret
        THEN LET w2 == [w1 EXCEPT !.connectionState = "authenticated"]
                 w3 == IF Len(w2.messageQueue) > 0
                         THEN FlushQueue([w2 EXCEPT !.messageQueue = <<>>],
                                         w2.messageQueue)
                         ELSE w2
             IN  [w3 EXCEPT !.heartbeatInterval = TRUE]
        ELSE HandleClose(w1, NoEvent)

\* WebSocketClient.handleOpen
HandleOpen(w) ==
  [w EXCEPT !.isConnecting = FALSE, !.connectionState = "connected",
            !.reconnectAttempts = 0, !.authTimers = @ + 1]

\* WebSocketClient.handleError
HandleError(w) ==
  IF w.socket # 0
    THEN [w EXCEPT !.readyState = CloseSocket(@, w.socket)]
    ELSE w

\* WebSocketClient.sendHeartbeat: the 10 s timer is set whether or not the
\* send succeeded
SendHeartbeat(w) ==
  IF IsConnected(w)
    THEN LET sentTime == Fresh(w.hbTimers)
             w1 == Send([w EXCEPT !.lastHeartbeatSent = sentTime],
                        [type |-> "heartbeat", id |-> sentTime, bad |-> FALSE])
         IN  [w1 EXCEPT !.hbTimers = @ \cup {sentTime}]
    ELSE w

\* a 10 s timer that never declares the connection stale
HeartbeatTimeoutIgnored(w, sentTime) == [w EXCEPT !.hbTimers = @ \ {sentTime}]

\* the callback of the 10 s timer sendHeartbeat sets
HeartbeatTimeout(w, sentTime) ==
  LET w1 == [w EXCEPT !.hbTimers = @ \ {sentTime}]
  IN  IF w1.lastHeartbeatSent = sentTime THEN HandleClose(w1, NoEvent) ELSE w1

\* the payload is handed to the subscribers of the type when it is truthy
Truthy(payload) == payload = "object"

\* a dispatch that serves the subscribers of the type before the wildcard ones
HandleMessageTypeFirst(w, data) ==
  IF ~data.parses THEN w
  ELSE IF data.type = "heartbeat_ack" THEN [w EXCEPT !.lastHeartbeatSent = 0]
  ELSE LET w1 == IF data.type # ""
                   THEN TriggerEvent(w, data.type,
                                     IF Truthy(data.payload) THEN "payload" ELSE "frame")
                   ELSE w
       IN  TriggerEvent(w1, "message", "frame")

\* WebSocketClient.handleMessage(event): data is what JSON.parse makes of
\* event.data, when it does not throw; a subscriber is called with "frame",
\* the parsed frame, or with "payload", its payload
HandleMessage(w, data) ==
  IF ~data.parses THEN w
  ELSE IF data.type = "heartbeat_ack" THEN [w EXCEPT !.lastHeartbeatSent = 0]
  ELSE LET w1 == TriggerEvent(w, "message", "frame")
       IN  IF data.type # ""
             THEN TriggerEvent(w1, data.type,
                               IF Truthy(data.payload) THEN "payload" ELSE "frame")
             ELSE w1

\* WebSocketClient.disconnect
Disconnect(w) ==
  LET w1 == [CloseConnection(w) EXCEPT !.userId = 0]
  IN  IF w1.reconnectTimeout # 0
        THEN [w1 EXCEPT !.reconnectTimers = ClearTimeout(@, w1.reconnectTimeout),
                        !.freshTimers = ClearTimeout(@, w1.reconnectTimeout),
                        !.reconnectTimeout = 0]
        ELSE w1

\* a reconnect timer that connects the user it was set for, whatever userId
\* has become
ReconnectTimerForUser(w, h, ctorThrows) ==
  Connect([w EXCEPT !.reconnectTimers = @ \ {h}, !.freshTimers = @ \ {h}],
          1, ctorThrows)

\* the callback of the reconnect timer handleClose sets
ReconnectTimer(w, h, ctorThrows) ==
  LET w1 == [w EXCEPT !.reconnectTimers = @ \ {h}, !.freshTimers = @ \ {h}]
  IN  IF w1.userId # 0 THEN Connect(w1, w1.userId, ctorThrows) ELSE w1

(* ------------------------------ actions -------------------------------- *)
ClientInit ==
  /\ socket = 0
  /\ isConnecting = FALSE
  /\ connectionState = "disconnected"
  /\ userId = 0
  /\ reconnectAttempts = AttemptsBase
  /\ reconnectTimeout = 0
  /\ heartbeatInterval = FALSE
  /\ lastHeartbeatSent = 0
  /\ messageQueue = <<>>
  /\ throttled = FALSE
  /\ readyState = [s \in SocketIds |-> "NONE"]
  /\ onclose = [s \in SocketIds |-> FALSE]
  /\ nextSocket = 1
  /\ reconnectTimers = {}
  /\ freshTimers = {}
  /\ authTimers = 0
  /\ hbTimers = {}
  /\ written = <<>>
  /\ nextMsg = 1
  /\ call = NoCall
  /\ listeners = [t \in SubscribedTypes |-> <<>>]
  /\ invoked = <<>>

\* a caller invokes websocketClient.connect(u)
CConnect ==
  /\ focus \in ClientFocus
  /\ nextSocket <= MaxSockets
  /\ \E u \in UserIds, ctorThrows \in BOOLEAN :
       Commit(Connect(Cur, u, ctorThrows), [op |-> "connect"])

\* a caller invokes websocketClient.disconnect()
CDisconnect ==
  /\ focus \in ClientFocus
  /\ Commit(Disconnect(Cur), NoCall)

\* a caller invokes websocketClient.send(data)
CSend ==
  /\ focus \in ClientFocus
  /\ nextMsg <= MaxMsgs
  /\ \E t \in SendTypes, b \in BOOLEAN :
       LET data == [type |-> t, id |-> nextMsg, bad |-> b]
           w == Send([Cur EXCEPT !.nextMsg = @ + 1], data)
       IN  Commit(w, [op |-> "send", data |-> data, ret |-> w.ret])

\* MIN_CONNECTION_INTERVAL has passed since the last connection attempt
CThrottleElapses ==
  /\ focus \in ClientFocus
  /\ throttled
  /\ Commit([Cur EXCEPT !.throttled = FALSE], NoCall)

\* the socket's open event
CSocketOpens ==
  /\ focus \in ClientFocus
  /\ \E s \in SocketIds :
       /\ readyState[s] = "CONNECTING"
       /\ Commit(HandleOpen([Cur EXCEPT !.readyState[s] = "OPEN"]), NoCall)

\* the socket ends: an error event first when the connection failed, then the
\* close event, delivered to the handlers still attached (the code and reason
\* of the close event matter to handleClose alone)
CSocketCloses ==
  /\ focus \in ClientFocus
  /\ \E s \in SocketIds, kind \in CloseKinds :
       /\ readyState[s] \in {"CONNECTING", "OPEN", "CLOSING"}
       /\ readyState[s] = "CONNECTING" => kind = "error"
       /\ kind = "superseded" => onclose[s]
       /\ LET w0 == [Cur EXCEPT !.readyState[s] = "CLOSED"]
              w1 == IF kind = "error" THEN HandleError(w0) ELSE w0
              w2 == IF w1.onclose[s] THEN HandleClose(w1, kind) ELSE w1
          IN  Commit(w2, NoCall)

\* a frame arrives on a socket that can still receive.  Where no caller
\* subscribes, only the heartbeat_ack of a pending heartbeat changes the state
CSocketMessage ==
  /\ focus \in ClientFocus \cup {"dispatch"}
  /\ \E s \in SocketIds, data \in Frames :
       /\ readyState[s] \in {"OPEN", "CLOSING"}
       /\ focus \in ClientFocus => (data = HeartbeatAck /\ lastHeartbeatSent # 0)
       /\ Commit(HandleMessage(Cur, data),
                 IF focus = "dispatch" THEN [op |-> "message", data |-> data]
                                       ELSE NoCall)

\* the 100 ms timer of handleOpen fires
CAuthTimerFires ==
  /\ focus \in ClientFocus
  /\ authTimers > 0
  /\ Commit(Authenticate([Cur EXCEPT !.authTimers = @ - 1]), NoCall)

\* the heartbeat interval fires; HEARTBEAT_INTERVAL (25 s) exceeds the 10 s
\* timeout, so the timer of an earlier heartbeat has fired by then
CHeartbeatFires ==
  /\ focus \in ClientFocus \cup {"dispatch"}
  /\ heartbeatInterval
  /\ hbTimers = {}
  /\ IsConnected(Cur)
  /\ Commit(SendHeartbeat(Cur), NoCall)

\* the 10 s timer of a heartbeat fires
CHeartbeatTimeoutFires ==
  /\ focus \in ClientFocus \cup {"dispatch"}
  /\ \E t \in hbTimers : Commit(HeartbeatTimeout(Cur, t), NoCall)

\* a reconnect timer fires.  Its delay is at least MIN_CONNECTION_INTERVAL, so
\* the throttle can only stem from an attempt made after it was set
CReconnectTimerFires ==
  /\ focus \in ClientFocus
  /\ \E h \in reconnectTimers, ctorThrows \in BOOLEAN :
       /\ ~(throttled /\ h \in freshTimers)
       /\ (nextSocket > MaxSockets => (userId = 0 \/ isConnecting \/ throttled))
       /\ Commit(ReconnectTimer(Cur, h, ctorThrows), [op |-> "reconnectTimer"])

\* a caller invokes websocketClient.on(type, callback)
COn ==
  /\ focus = "dispatch"
  /\ \E type \in SubscribedTypes, callback \in Callbacks :
       /\ Len(listeners[type]) < MaxListeners
       /\ Commit(On(Cur, type, callback), NoCall)

\* a caller invokes websocketClient.off(type, callback)
COff ==
  /\ focus = "dispatch"
  /\ \E type \in SubscribedTypes, callback \in Callbacks :
       Commit(Off(Cur, type, callback), NoCall)

\* the client after connect(1), the socket's open event and the 100 ms timer
\* of handleOpen: authenticated on socket 1, the heartbeat interval running
DispatchInit ==
  /\ socket = 1
  /\ isConnecting = FALSE
  /\ connectionState = "authenticated"
  /\ userId = 1
  /\ reconnectAttempts = 0
  /\ reconnectTimeout = 0
  /\ heartbeatInterval = TRUE
  /\ lastHeartbeatSent = 0
  /\ messageQueue = <<>>
  /\ throttled = TRUE
  /\ readyState = [s \in SocketIds |-> IF s = 1 THEN "OPEN" ELSE "NONE"]
  /\ onclose = [s \in SocketIds |-> s = 1]
  /\ nextSocket = 2
  /\ reconnectTimers = {}
  /\ freshTimers = {}
  /\ authTimers = 0
  /\ hbTimers = {}
  /\ written = <<>>
  /\ nextMsg = 1
  /\ call = NoCall
  /\ listeners = [t \in SubscribedTypes |-> <<>>]
  /\ invoked = <<>>

\* subscribing, unsubscribing, inbound frames and heartbeats on that socket
DispatchNext ==
  \/ COn
  \/ COff
  \/ CSocketMessage
  \/ CHeartbeatFires
  \/ CHeartbeatTimeoutFires

(* ========================== useWebSocket hook ========================== *)
HookSocketIds == 1..HookMaxSockets
\* the message types components register handlers for
ListenerTypes == {"new_message", "heartbeat_ack"}
\* a type the listeners map does not hold
NoEntry == [has |-> FALSE, set |-> <<>>]

HookCur ==
  [socket |-> ws_socket, isConnecting |-> ws_isConnecting,
   pendingReconnect |-> ws_pendingReconnect,
   reconnectAttempts |-> ws_reconnectAttempts, throttled |-> ws_throttled,
   isConnected |-> isConnected, readyState |-> ws_readyState,
   nextSocket |-> ws_nextSocket, timers |-> ws_timers,
   freshTimers |-> ws_freshTimers, toast |-> FALSE,
   closesSinceOpen |-> closesSinceOpen, closesSinceReset |-> closesSinceReset]

HookCommit(w, e) ==
  /\ ws_socket' = w.socket
  /\ ws_isConnecting' = w.isConnecting
  /\ ws_pendingReconnect' = w.pendingReconnect
  /\ ws_reconnectAttempts' = w.reconnectAttempts
  /\ ws_throttled' = w.throttled
  /\ isConnected' = w.isConnected
  /\ ws_readyState' = w.readyState
  /\ ws_nextSocket' = w.nextSocket
  /\ ws_timers' = w.timers
  /\ ws_freshTimers' = w.freshTimers
  /\ ws_event' = e
  /\ toast' = w.toast
  /\ closesSinceOpen' = w.closesSinceOpen
  /\ closesSinceReset' = w.closesSinceReset
  /\ UNCHANGED <<ws_listeners, ws_unsubscribe, ws_invoked>>
  /\ UNCHANGED <<focus, clientVars, chatVars, providerVars, instanceVars>>

HookReadyState(w) == IF w.socket = 0 THEN "NONE" ELSE w.readyState[w.socket]

\* a deferral that does not look at the pendingReconnect slot
HookDeferAlways(w) ==
  LET h == Fresh(w.timers)
  IN  [w EXCEPT !.timers = @ \cup {h}, !.freshTimers = @ \cup {h},
                !.pendingReconnect = h]

\* the throttle branch of connect: one deferral timer, unless one is pending
HookDefer(w) ==
  IF w.pendingReconnect = 0
    THEN LET h == Fresh(w.timers)
         IN  [w EXCEPT !.timers = @ \cup {h}, !.freshTimers = @ \cup {h},
                       !.pendingReconnect = h]
    ELSE w

\* the closing of the existing connection in connect
HookCloseExisting(w) ==
  IF w.socket # 0
    THEN [w EXCEPT !.readyState = CloseSocket(@, w.socket), !.socket = 0]
    ELSE w

\* useWebSocket.connect, with a user logged in
HookConnect(w, ctorThrows) ==
  IF HookReadyState(w) = "OPEN" THEN [w EXCEPT !.isConnected = TRUE]
  ELSE IF w.isConnecting \/ HookReadyState(w) = "CONNECTING" THEN w
  ELSE IF w.throttled THEN HookDefer(w)
  ELSE LET w1 == [w EXCEPT !.isConnecting = TRUE, !.throttled = TRUE,
                           !.freshTimers = {}]
           w2 == HookCloseExisting(w1)
           s  == w2.nextSocket
       IN  IF ctorThrows
             THEN [w2 EXCEPT !.nextSocket = s + 1, !.isConnecting = FALSE]
             ELSE [w2 EXCEPT !.nextSocket = s + 1, !.socket = s,
                             !.readyState[s] = "CONNECTING"]

\* socket.onopen
HookOnOpen(w) ==
  [w EXCEPT !.isConnected = TRUE, !.reconnectAttempts = 0,
            !.isConnecting = FALSE, !.closesSinceOpen = 0,
            !.closesSinceReset = 0]

\* an onclose that retries once more than the cap
HookOnCloseLax(w, superseded) ==
  LET w1 == [w EXCEPT !.isConnected = FALSE, !.isConnecting = FALSE]
      w3 == [w1 EXCEPT !.timers = ClearTimeout(@, w1.pendingReconnect),
                       !.freshTimers = ClearTimeout(@, w1.pendingReconnect),
                       !.pendingReconnect = 0,
                       !.closesSinceOpen = @ + 1, !.closesSinceReset = @ + 1]
      h  == Fresh(w3.timers)
  IN  IF superseded THEN w1
      ELSE IF w3.reconnectAttempts <= HOOK_MAX_RECONNECT_ATTEMPTS
        THEN [w3 EXCEPT !.reconnectAttempts = @ + 1, !.timers = @ \cup {h},
                        !.pendingReconnect = h]
        ELSE [w3 EXCEPT !.toast = TRUE]

\* socket.onclose; superseded: code 1000 with reason "New connection
\* established" or "Same client reconnected"
HookOnClose(w, superseded) ==
  LET w1 == [w EXCEPT !.isConnected = FALSE, !.isConnecting = FALSE]
      w2 == IF w1.pendingReconnect # 0
              THEN [w1 EXCEPT !.timers = ClearTimeout(@, w1.pendingReconnect),
                              !.freshTimers = ClearTimeout(@, w1.pendingReconnect),
                              !.pendingReconnect = 0]
              ELSE w1
      w3 == [w2 EXCEPT !.closesSinceOpen = @ + 1, !.closesSinceReset = @ + 1]
      h  == Fresh(w3.timers)
  IN  IF superseded THEN w1
      ELSE IF w3.reconnectAttempts < HOOK_MAX_RECONNECT_ATTEMPTS
        THEN [w3 EXCEPT !.reconnectAttempts = @ + 1, !.timers = @ \cup {h},
                        !.pendingReconnect = h]
        ELSE [w3 EXCEPT !.toast = TRUE]

\* the callback of either timer: the slot is emptied, connect runs again
HookTimer(w, h, ctorThrows) ==
  HookConnect([w EXCEPT !.timers = @ \ {h}, !.freshTimers = @ \ {h},
                        !.pendingReconnect = 0], ctorThrows)

\* useWebSocket.reconnect
HookReconnect(w, ctorThrows) ==
  HookConnect([w EXCEPT !.reconnectAttempts = 0, !.closesSinceReset = 0], ctorThrows)

\* useWebSocket.sendMessage
HookSendMessage(w, ctorThrows) ==
  IF HookReadyState(w) = "OPEN" THEN w
  ELSE IF ~w.isConnecting /\ (w.socket = 0 \/ HookReadyState(w) = "CLOSED")
    THEN HookConnect(w, ctorThrows)
    ELSE w

HookInit ==
  /\ ws_socket = 0
  /\ ws_isConnecting = FALSE
  /\ ws_pendingReconnect = 0
  /\ ws_reconnectAttempts = 0
  /\ ws_throttled = FALSE
  /\ isConnected = FALSE
  /\ ws_readyState = [s \in HookSocketIds |-> "NONE"]
  /\ ws_nextSocket = 1
  /\ ws_timers = {}
  /\ ws_freshTimers = {}
  /\ ws_event = "none"
  /\ toast = FALSE
  /\ closesSinceOpen = 0
  /\ closesSinceReset = 0
  /\ ws_listeners = [t \in ListenerTypes |-> NoEntry]
  /\ ws_unsubscribe = {}
  /\ ws_invoked = <<>>

\* the steps that may construct a socket stop at HookMaxSockets sockets
HookMayConstruct == ws_nextSocket <= HookMaxSockets

\* a component calls connect(): the mount effect, HomePage's effect
HConnect ==
  /\ focus = "hook"
  /\ HookMayConstruct
  /\ \E ctorThrows \in BOOLEAN : HookCommit(HookConnect(HookCur, ctorThrows), "none")

\* a component calls reconnect()
HReconnect ==
  /\ focus = "hook"
  /\ HookMayConstruct
  /\ \E ctorThrows \in BOOLEAN : HookCommit(HookReconnect(HookCur, ctorThrows), "none")

\* a component calls sendMessage(data)
HSendMessage ==
  /\ focus = "hook"
  /\ HookMayConstruct
  /\ \E ctorThrows \in BOOLEAN : HookCommit(HookSendMessage(HookCur, ctorThrows), "none")

\* MIN_CONNECTION_INTERVAL has passed since the last connection attempt
HThrottleElapses ==
  /\ focus = "hook"
  /\ ws_throttled
  /\ HookCommit([HookCur EXCEPT !.throttled = FALSE], "none")

\* the socket's open event
HSocketOpens ==
  /\ focus = "hook"
  /\ \E s \in HookSocketIds :
       /\ ws_readyState[s] = "CONNECTING"
       /\ HookCommit(HookOnOpen([HookCur EXCEPT !.readyState[s] = "OPEN"]), "none")

\* the server starts the closing handshake: readyState becomes CLOSING
HSocketClosing ==
  /\ focus = "hook"
  /\ \E s \in HookSocketIds :
       /\ ws_readyState[s] = "OPEN"
       /\ HookCommit([HookCur EXCEPT !.readyState[s] = "CLOSING"], "none")

\* the socket's close event; every socket keeps its onclose handler
HSocketCloses ==
  /\ focus = "hook"
  /\ \E s \in HookSocketIds, superseded \in BOOLEAN :
       /\ ws_readyState[s] \in {"CONNECTING", "OPEN", "CLOSING"}
       /\ superseded => ws_readyState[s] # "CONNECTING"
       /\ HookCommit(HookOnClose([HookCur EXCEPT !.readyState[s] = "CLOSED"], superseded),
                     IF superseded THEN "superseded" ELSE "close")

\* a pending timer fires.  A throttle-deferral timer waits for the rest of
\* MIN_CONNECTION_INTERVAL; a retry timer's delay (2 s and more) may be shorter
HTimerFires ==
  /\ focus = "hook"
  /\ \E h \in ws_timers, ctorThrows \in BOOLEAN :
       /\ ~(ws_throttled /\ h \in ws_freshTimers)
       /\ (~HookMayConstruct =>
             (ws_throttled \/ HookReadyState(HookCur) \in {"OPEN", "CONNECTING"}
                \/ ws_isConnecting))
       /\ HookCommit(HookTimer(HookCur, h, ctorThrows), "none")

HookNext ==
  \/ HConnect
  \/ HReconnect
  \/ HSendMessage
  \/ HThrottleElapses
  \/ HSocketOpens
  \/ HSocketClosing
  \/ HSocketCloses
  \/ HTimerFires


(* ---- WebSocketManager.listeners *)
ManagerCur ==
  [listeners |-> ws_listeners, unsubscribe |-> ws_unsubscribe,
   invoked |-> <<>>, lastMessage |-> lastMessage]

ManagerCommit(m) ==
  /\ ws_listeners' = m.listeners
  /\ ws_unsubscribe' = m.unsubscribe
  /\ ws_invoked' = m.invoked
  /\ lastMessage' = m.lastMessage
  /\ UNCHANGED <<ws_socket, ws_isConnecting, ws_pendingReconnect,
                 ws_reconnectAttempts, ws_throttled, isConnected, ws_readyState,
                 ws_nextSocket, ws_timers, ws_freshTimers, ws_event, toast,
                 closesSinceOpen, closesSinceReset>>
  /\ UNCHANGED <<chatId, loaded, messages, typingUsers, typingTimeoutRef,
                 typingTimers, sinceIndicator, posted, effectRun>>
  /\ UNCHANGED <<focus, clientVars, providerVars, instanceVars>>

\* Set.prototype.add: a value the Set holds keeps its place
SetAdd(set, x) == IF \E i \in DOMAIN set : set[i] = x THEN set ELSE Append(set, x)

\* Set.prototype.delete
RECURSIVE SetDelete(_, _)
SetDelete(set, x) ==
  IF set = <<>> THEN <<>>
  ELSE IF Head(set) = x THEN Tail(set)
  ELSE <<Head(set)>> \o SetDelete(Tail(set), x)

\* WebSocketManager.registerListener(type, callback); the function it returns
\* joins those the callers hold
RegisterListener(m, type, callback) ==
  LET set == IF m.listeners[type].has THEN m.listeners[type].set ELSE <<>>
  IN  [m EXCEPT !.listeners[type] = [has |-> TRUE, set |-> SetAdd(set, callback)],
                !.unsubscribe = @ \cup {<<type, callback>>}]

\* an unsubscribe function that leaves the emptied Set in the map
UnsubscribeKeepingEntry(m, type, callback) ==
  IF m.listeners[type].has
    THEN [m EXCEPT !.listeners[type].set = SetDelete(@, callback)]
    ELSE m

\* the function registerListener(type, callback) returned
Unsubscribe(m, type, callback) ==
  IF m.listeners[type].has
    THEN LET set == SetDelete(m.listeners[type].set, callback)
         IN  IF Len(set) = 0
               THEN [m EXCEPT !.listeners[type] = NoEntry]
               ELSE [m EXCEPT !.listeners[type].set = set]
    ELSE m

\* one call of a listener from dispatchMessage's forEach, in its try block;
\* the leaver calls the unsubscribe function it was given for the type
ManagerInvoke(m, type, callback, payload) ==
  LET m1 == [m EXCEPT !.invoked =
               Append(@, [type |-> type, callback |-> callback, arg |-> payload])]
  IN  IF callback = "leaver" THEN Unsubscribe(m1, type, callback) ELSE m1

\* Set.prototype.forEach: the values are visited in insertion order, each one
\* that is still in the Set when its turn comes; todo is what was in the Set
\* at the start and has not had its turn
RECURSIVE SetForEach(_, _, _, _)
SetForEach(m, type, payload, todo) ==
  IF todo = <<>> THEN m
  ELSE IF \E i \in DOMAIN m.listeners[type].set :
            m.listeners[type].set[i] = Head(todo)
    THEN SetForEach(ManagerInvoke(m, type, Head(todo), payload), type, payload,
                    Tail(todo))
    ELSE SetForEach(m, type, payload, Tail(todo))

\* WebSocketManager.dispatchMessage(type, payload)
DispatchMessage(m, type, payload) ==
  IF type \in ListenerTypes /\ m.listeners[type].has
    THEN SetForEach(m, type, payload, m.listeners[type].set)
    ELSE m

\* socket.onmessage of useWebSocket.connect.  The 50 ms timer it sets for a
\* new_message only invalidates queries, which refetch (WFetchMessages)
HookOnMessage(m, data) ==
  IF ~data.parses THEN m
  ELSE DispatchMessage([m EXCEPT !.lastMessage = data], data.type, data.payload)

\* a component calls registerHandler(type, handler) and keeps what it returns
MRegister ==
  /\ focus = "listeners"
  /\ \E type \in ListenerTypes, callback \in Callbacks :
       ManagerCommit(RegisterListener(ManagerCur, type, callback))

\* a component calls an unsubscribe function it holds
MUnsubscribe ==
  /\ focus = "listeners"
  /\ \E u \in ws_unsubscribe :
       ManagerCommit(Unsubscribe(ManagerCur, u[1], u[2]))

\* a frame arrives on the hook's socket
MSocketMessage ==
  /\ focus = "listeners"
  /\ \E data \in Frames : ManagerCommit(HookOnMessage(ManagerCur, data))

ManagerNext ==
  \/ MRegister
  \/ MUnsubscribe
  \/ MSocketMessage


(* ======================= ChatWindow's reconciler ======================= *)
Chats == {1, 2}
Users == {1, 2}
NullMessage == [type |-> "null"]
\* sinceIndicator stops counting here: longer ago than any expiry
LongAgo == TYPING_EXPIRY + 2

\* a message as the server first sends it
Posted(id, c) ==
  [id |-> id, chatId |-> c, content |-> "hi", mediaUrl |-> "url", isDeleted |-> FALSE]

Edited(m) == [m EXCEPT !.content = "edited"]

ChatCur ==
  [chatId |-> chatId, lastMessage |-> lastMessage, loaded |-> loaded,
   messages |-> messages, typingUsers |-> typingUsers,
   typingTimeoutRef |-> typingTimeoutRef, typingTimers |-> typingTimers,
   sinceIndicator |-> sinceIndicator, posted |-> posted, effectRun |-> "none"]

ChatCommit(k) ==
  /\ chatId' = k.chatId
  /\ lastMessage' = k.lastMessage
  /\ loaded' = k.loaded
  /\ messages' = k.messages
  /\ typingUsers' = k.typingUsers
  /\ typingTimeoutRef' = k.typingTimeoutRef
  /\ typingTimers' = k.typingTimers
  /\ sinceIndicator' = k.sinceIndicator
  /\ posted' = k.posted
  /\ effectRun' = k.effectRun
  /\ UNCHANGED <<focus, clientVars, hookVars, providerVars, instanceVars>>

\* queryClient.setQueryData(key of chat c, old => ...): ifNone is the updater's
\* result for !old, updated its result for the cached k.messages[c] otherwise
SetQueryData(k, c, ifNone, updated) ==
  [k EXCEPT !.messages[c] = IF c \in k.loaded THEN updated ELSE ifNone,
            !.loaded = @ \cup {c}]

Includes(seq, x) == \E i \in DOMAIN seq : seq[i] = x

\* a new_message branch that appends without looking for the id
OnNewMessageAppend(k, payload) ==
  IF payload.chatId = k.chatId
    THEN LET old == k.messages[k.chatId]
         IN  SetQueryData(k, k.chatId, <<payload>>, Append(old, payload))
    ELSE k

\* the new_message branch of the effect
OnNewMessage(k, payload) ==
  IF payload.chatId = k.chatId
    THEN LET old == k.messages[k.chatId]
             messageExists == \E i \in DOMAIN old : old[i].id = payload.id
         IN  SetQueryData(k, k.chatId, <<payload>>,
                          IF messageExists THEN old ELSE Append(old, payload))
    ELSE k

\* the message_edited branch
OnMessageEdited(k, payload) ==
  IF payload.chatId = k.chatId
    THEN LET old == k.messages[k.chatId]
             Patch(msg) == IF msg.id = payload.id THEN payload ELSE msg
         IN  SetQueryData(k, k.chatId, <<>>, [i \in DOMAIN old |-> Patch(old[i])])
    ELSE k

\* a message_deleted branch that drops the entry from the sequence
OnMessageDeletedRemoves(k, payload) ==
  LET Kept(msg) == msg.id # payload.messageId
  IN  SetQueryData(k, k.chatId, <<>>, SelectSeq(k.messages[k.chatId], Kept))

\* the message_deleted branch
OnMessageDeleted(k, payload) ==
  LET Patch(msg) ==
        IF msg.id = payload.messageId
          THEN [msg EXCEPT !.isDeleted = TRUE, !.content = "null", !.mediaUrl = "null"]
          ELSE msg
      old == k.messages[k.chatId]
  IN  SetQueryData(k, k.chatId, <<>>, [i \in DOMAIN old |-> Patch(old[i])])

\* the typing_indicator branch
OnTypingIndicator(k, payload) ==
  IF payload.chatId = k.chatId
    THEN LET u == payload.userId
             kept == IF k.typingTimeoutRef[u] # 0
                       THEN {t \in k.typingTimers : t.h # k.typingTimeoutRef[u]}
                       ELSE k.typingTimers
             \* a handle no other user's ref still names: handles are not reused
             h == Fresh({t.h : t \in kept}
                        \cup {k.typingTimeoutRef[v] : v \in Users \ {u}})
         IN  [k EXCEPT !.typingTimers =
                          kept \cup {[h |-> h, user |-> u, left |-> TYPING_EXPIRY]},
                       !.typingUsers = IF Includes(@, u) THEN @ ELSE Append(@, u),
                       !.typingTimeoutRef[u] = h]
    ELSE k

\* the effect on [lastMessage, chatId, selectedChat]
ChatWindowEffect(k) ==
  LET m == k.lastMessage
  IN  CASE m.type = "null" -> k
        [] m.type = "new_message" -> OnNewMessage(k, m.payload)
        [] m.type = "message_edited" -> OnMessageEdited(k, m.payload)
        [] m.type = "message_deleted" -> OnMessageDeleted(k, m.payload)
        [] m.type = "typing_indicator" -> OnTypingIndicator(k, m.payload)
        [] OTHER -> k

\* the events the server can push about the messages it holds
MessageEvents(k) ==
  {[type |-> "new_message", payload |-> k.posted[i]] : i \in DOMAIN k.posted}
  \cup {[type |-> "message_edited", payload |-> Edited(k.posted[i])] :
          i \in DOMAIN k.posted}
  \cup {[type |-> "message_deleted", payload |-> [messageId |-> k.posted[i].id]] :
          i \in DOMAIN k.posted}

TypingEvents ==
  {[type |-> "typing_indicator", payload |-> [chatId |-> c, userId |-> u]] :
     c \in Chats, u \in Users}

\* an event of a type the effect has no branch for
OtherEvents == {[type |-> "new_chat", payload |-> [chatId |-> c]] : c \in Chats}

\* The message branches and the typing branch of the effect write disjoint
\* state, sharing only chatId and lastMessage: a behaviour follows one of the
\* two families of events, and any other event as OtherEvents.
InboundEvents(k) ==
  (IF focus = "chat" THEN MessageEvents(k) ELSE TypingEvents) \cup OtherEvents

ChatInit ==
  /\ chatId = 1
  /\ lastMessage = NullMessage
  /\ loaded = {}
  /\ messages = [c \in Chats |-> <<>>]
  /\ typingUsers = <<>>
  /\ typingTimeoutRef = [u \in Users |-> 0]
  /\ typingTimers = {}
  /\ sinceIndicator = [u \in Users |-> LongAgo]
  /\ posted = <<>>
  /\ effectRun = "none"

\* a message is sent in some chat: the server stores it
WServerPosts ==
  /\ focus = "chat"
  /\ Len(posted) < MaxPosted
  /\ \E c \in Chats :
       ChatCommit([ChatCur EXCEPT !.posted = Append(@, Posted(Len(@) + 1, c))])

\* the socket delivers an event: lastMessage changes and the effect runs
WReceive ==
  /\ focus \in {"chat", "typing"}
  /\ \E ev \in InboundEvents(ChatCur) :
       LET k == ChatWindowEffect([ChatCur EXCEPT !.lastMessage = ev,
                                                 !.effectRun = "received"])
           fresh == ev.type = "typing_indicator"
       IN  ChatCommit(IF fresh
                        THEN [k EXCEPT !.sinceIndicator[ev.payload.userId] = 0]
                        ELSE k)

\* a chat of the list is clicked: setSelectedChat(chat) with the chat object of
\* the current list, so the effect's dependencies change and it runs again
WSelectChat ==
  /\ focus \in {"chat", "typing"}
  /\ \E c \in Chats :
       ChatCommit(ChatWindowEffect([ChatCur EXCEPT !.chatId = c,
                                                   !.effectRun = "selected"]))

\* the messages query of the open chat (re)fetches: the server's list
WFetchMessages ==
  /\ focus = "chat"
  /\ LET IsOfChat(m) == m.chatId = chatId
     IN  ChatCommit([ChatCur EXCEPT !.messages[chatId] = SelectSeq(posted, IsOfChat),
                                    !.loaded = @ \cup {chatId}])

\* one second passes; a timer that is due fires first
WTick ==
  /\ focus = "typing"
  /\ \A t \in typingTimers : t.left > 0
  /\ \E u \in Users : sinceIndicator[u] < LongAgo
  /\ ChatCommit([ChatCur EXCEPT
       !.typingTimers = {[t EXCEPT !.left = @ - 1] : t \in @},
       !.sinceIndicator = [u \in Users |-> IF @[u] < LongAgo THEN @[u] + 1 ELSE @[u]]])

\* the callback of an expiry timer
TypingExpires(k, t) ==
  LET NotUser(id) == id # t.user
  IN  [k EXCEPT !.typingTimers = @ \ {t},
                !.typingUsers = SelectSeq(@, NotUser)]

WTypingTimerFires ==
  /\ focus = "typing"
  /\ \E t \in typingTimers :
       /\ t.left = 0
       /\ ChatCommit(TypingExpires(ChatCur, t))

ChatNext ==
  \/ WServerPosts
  \/ WReceive
  \/ WSelectChat
  \/ WFetchMessages
  \/ WTick
  \/ WTypingTimerFires


(* ====================== ChatProvider's reconciler ====================== *)
\* the chats of the list: chat 1 is a direct chat with user 2, chat 2 a group
IsGroup(c) == c = 2
OtherUser(c) == IF c = 1 THEN 2 ELSE 0
\* the query keys: ['/api/chats'] and [`/api/chats/${c}/messages`]
ChatsKey == <<"chats", 0>>
MessagesKey(c) == <<"messages", c>>

ProviderCur ==
  [selectedChat |-> selectedChat, lastMessage |-> cp_lastMessage,
   staleQueries |-> staleQueries, pendingRender |-> pendingRender,
   invalidated |-> {}, toasts |-> <<>>, effectRun |-> "none"]

ProviderCommit(k) ==
  /\ selectedChat' = k.selectedChat
  /\ cp_lastMessage' = k.lastMessage
  /\ staleQueries' = k.staleQueries
  /\ pendingRender' = k.pendingRender
  /\ invalidated' = k.invalidated
  /\ toasts' = k.toasts
  /\ cp_effectRun' = k.effectRun
  /\ UNCHANGED <<focus, clientVars, hookVars, chatVars, instanceVars>>

\* queryClient.invalidateQueries({ queryKey })
InvalidateQueries(k, key) ==
  [k EXCEPT !.staleQueries = @ \cup {key}, !.invalidated = @ \cup {key}]

\* toast({ title, ... })
Toast(k, title) == [k EXCEPT !.toasts = Append(@, title)]

\* the payload names the selected chat
OfSelectedChat(k, payload) ==
  k.selectedChat # 0 /\ payload.chatId = k.selectedChat

\* case 'new_message'
ProviderNewMessage(k, payload) ==
  IF OfSelectedChat(k, payload)
    THEN InvalidateQueries(InvalidateQueries(k, MessagesKey(payload.chatId)), ChatsKey)
    ELSE InvalidateQueries(Toast(k, "New message"), ChatsKey)

\* case 'message_edited'
ProviderMessageEdited(k, payload) ==
  IF OfSelectedChat(k, payload)
    THEN InvalidateQueries(k, MessagesKey(payload.chatId))
    ELSE k

\* case 'message_deleted'
ProviderMessageDeleted(k, payload) ==
  IF k.selectedChat # 0
    THEN InvalidateQueries(k, MessagesKey(k.selectedChat))
    ELSE k

\* a profile_update case that refreshes the chat list for a selected chat only
ProviderProfileUpdateSelected(k, payload) ==
  IF k.selectedChat # 0
    THEN LET direct == ~IsGroup(k.selectedChat)
                         /\ OtherUser(k.selectedChat) = payload.userId
             k1 == IF direct THEN [k EXCEPT !.pendingRender = TRUE] ELSE k
         IN  InvalidateQueries(InvalidateQueries(k1, MessagesKey(k.selectedChat)),
                               ChatsKey)
    ELSE k

\* case 'profile_update': the updater of setSelectedChat returns a new object
\* for a direct chat with the updated user, so the provider renders again
ProviderProfileUpdate(k, payload) ==
  LET direct == k.selectedChat # 0 /\ ~IsGroup(k.selectedChat)
                  /\ OtherUser(k.selectedChat) = payload.userId
      k1 == IF direct THEN [k EXCEPT !.pendingRender = TRUE] ELSE k
      k2 == IF k.selectedChat # 0
              THEN InvalidateQueries(k1, MessagesKey(k.selectedChat))
              ELSE k1
  IN  InvalidateQueries(k2, ChatsKey)

\* case 'user_status_changed'
ProviderUserStatusChanged(k, payload) == InvalidateQueries(k, ChatsKey)

\* case 'group_invitation'
ProviderGroupInvitation(k, payload) ==
  Toast(InvalidateQueries(k, ChatsKey), "New Group Invitation")

\* case 'user_joined_group'
ProviderUserJoinedGroup(k, payload) ==
  IF OfSelectedChat(k, payload)
    THEN Toast(InvalidateQueries(k, ChatsKey), "User Joined")
    ELSE k

\* case 'user_left_group'
ProviderUserLeftGroup(k, payload) ==
  IF OfSelectedChat(k, payload)
    THEN Toast(InvalidateQueries(k, ChatsKey), "User Left")
    ELSE k

\* the effect on [lastMessage, selectedChat, toast]
ChatProviderEffect(k) ==
  LET m == k.lastMessage
  IN  CASE m.type = "null" -> k
        [] m.type = "new_message" -> ProviderNewMessage(k, m.payload)
        [] m.type = "message_edited" -> ProviderMessageEdited(k, m.payload)
        [] m.type = "message_deleted" -> ProviderMessageDeleted(k, m.payload)
        [] m.type = "profile_update" -> ProviderProfileUpdate(k, m.payload)
        [] m.type = "user_status_changed" -> ProviderUserStatusChanged(k, m.payload)
        [] m.type = "group_invitation" -> ProviderGroupInvitation(k, m.payload)
        [] m.type = "user_joined_group" -> ProviderUserJoinedGroup(k, m.payload)
        [] m.type = "user_left_group" -> ProviderUserLeftGroup(k, m.payload)
        [] OTHER -> k

\* the event types that name a chat, and those that name a user
ChatEventTypes == {"new_message", "message_edited", "message_deleted",
                   "group_invitation", "user_joined_group", "user_left_group",
                   "new_chat"}
UserEventTypes == {"profile_update", "user_status_changed"}

\* the events the socket can deliver to the provider; of the payload, the
\* chat or the user it names (0 where it names none)
ProviderEvents ==
  {[type |-> t, payload |-> [chatId |-> c, userId |-> 0]] :
     t \in ChatEventTypes, c \in Chats}
  \cup {[type |-> t, payload |-> [chatId |-> 0, userId |-> u]] :
          t \in UserEventTypes, u \in Users}

ProviderInit ==
  /\ selectedChat = 0
  /\ cp_lastMessage = NullMessage
  /\ staleQueries = {}
  /\ pendingRender = FALSE
  /\ invalidated = {}
  /\ toasts = <<>>
  /\ cp_effectRun = "none"

\* the socket delivers an event: lastMessage changes and the effect runs
PReceive ==
  /\ focus = "provider"
  /\ \E ev \in ProviderEvents :
       ProviderCommit(ChatProviderEffect([ProviderCur EXCEPT !.lastMessage = ev,
                                                             !.effectRun = "received"]))

\* setSelectedChat(chat) from the chat list, or setSelectedChat(null): the
\* effect's dependencies change and it runs again
PSelectChat ==
  /\ focus = "provider"
  /\ \E c \in Chats \cup {0} :
       /\ c # selectedChat
       /\ ProviderCommit(ChatProviderEffect([ProviderCur EXCEPT
                                               !.selectedChat = c,
                                               !.pendingRender = FALSE,
                                               !.effectRun = "selected"]))

\* the render after the effect's own setSelectedChat: selectedChat is a new
\* object, and the effect runs again
PRender ==
  /\ focus = "provider"
  /\ pendingRender
  /\ ProviderCommit(ChatProviderEffect([ProviderCur EXCEPT
                                          !.pendingRender = FALSE,
                                          !.effectRun = "rendered"]))

\* an invalidated query is fetched again
PRefetch ==
  /\ focus = "provider"
  /\ \E key \in staleQueries :
       ProviderCommit([ProviderCur EXCEPT !.staleQueries = @ \ {key}])

ProviderNext ==
  \/ PReceive
  \/ PSelectChat
  \/ PRender
  \/ PRefetch


(* ================= the instances of the useWebSocket hook ============== *)
\* two of the components that call useWebSocket()
Instances == {"ChatProvider", "ChatWindow"}
\* an instance that has unmounted: its closures live on in the handlers and
\* timers it set, its state setters do nothing
Gone == "gone"
\* the frames followed here: text JSON.parse rejects, and a new_message
InstanceFrames ==
  {Unparsable, [parses |-> TRUE, type |-> "new_message", payload |-> "object"]}

\* the manager, and the isConnected state of the instance i
InstanceCur(i) ==
  [HookCur EXCEPT !.isConnected = IF i \in mounted THEN hk_isConnected[i] ELSE FALSE]

\* the step of a closure of instance i (a call of its connect or sendMessage,
\* or a handler or timer it set) that made w of InstanceCur(i): a socket that
\* w constructed has i's handlers, a timer that w set calls i's connect, and
\* setIsConnected reaches i's state while i is mounted
InstanceCommit(w, i, m, lm, e) ==
  LET set == /\ w.pendingReconnect # 0
             /\ \/ w.pendingReconnect # ws_pendingReconnect
                \/ w.reconnectAttempts = ws_reconnectAttempts + 1
      kept == {p \in connectOf : p[1] \in w.timers /\ ~(set /\ p[1] = w.pendingReconnect)}
  IN  /\ ws_socket' = w.socket
      /\ ws_isConnecting' = w.isConnecting
      /\ ws_pendingReconnect' = w.pendingReconnect
      /\ ws_reconnectAttempts' = w.reconnectAttempts
      /\ ws_throttled' = w.throttled
      /\ ws_readyState' = w.readyState
      /\ ws_nextSocket' = w.nextSocket
      /\ ws_timers' = w.timers
      /\ ws_freshTimers' = w.freshTimers
      /\ toast' = w.toast
      /\ closesSinceOpen' = w.closesSinceOpen
      /\ closesSinceReset' = w.closesSinceReset
      /\ mounted' = m
      /\ hk_isConnected' = [j \in Instances |->
                              IF j = i /\ j \in m THEN w.isConnected
                              ELSE IF j \in m THEN hk_isConnected[j] ELSE FALSE]
      /\ hk_lastMessage' = [j \in Instances |-> IF j \in m THEN lm[j] ELSE NullMessage]
      /\ handlersOf' = [s \in HookSocketIds |->
                          IF s = ws_nextSocket /\ w.socket = s /\ w.nextSocket > s THEN i
                          ELSE IF handlersOf[s] \in Instances \ m THEN Gone
                          ELSE handlersOf[s]]
      /\ connectOf' = {<<p[1], IF p[2] \in Instances \ m THEN Gone ELSE p[2]>> :
                          p \in kept}
                       \cup (IF set THEN {<<w.pendingReconnect, i>>} ELSE {})
      /\ hk_event' = e
      /\ UNCHANGED <<isConnected, ws_event, ws_listeners, ws_unsubscribe, ws_invoked>>
      /\ UNCHANGED <<focus, clientVars, chatVars, providerVars>>

NoSocketEvent == [op |-> "none", socket |-> 0]

\* socket.onmessage as the instance whose handlers the socket has sees it:
\* setLastMessage(data) on its own state
InstanceOnMessage(lm, i, data) ==
  IF data.parses /\ i \in mounted THEN [lm EXCEPT ![i] = data] ELSE lm

InstanceInit ==
  /\ mounted = {}
  /\ hk_isConnected = [i \in Instances |-> FALSE]
  /\ hk_lastMessage = [i \in Instances |-> NullMessage]
  /\ handlersOf = [s \in HookSocketIds |-> "none"]
  /\ connectOf = {}
  /\ hk_event = NoSocketEvent

\* the sockets followed in the behaviours of the instances
InstanceMayConstruct == ws_nextSocket <= MaxInstanceSockets

\* a component mounts with a user logged in: its state starts out, and its
\* mount effect calls connect() unless the socket is open
IMount ==
  /\ focus = "instances"
  /\ InstanceMayConstruct
  /\ \E i \in Instances \ mounted, ctorThrows \in BOOLEAN :
       InstanceCommit(HookConnect([HookCur EXCEPT !.isConnected = FALSE], ctorThrows),
                      i, mounted \cup {i}, hk_lastMessage, NoSocketEvent)

\* a component unmounts: the effect's cleanup does nothing
IUnmount ==
  /\ focus = "instances"
  /\ \E i \in mounted :
       InstanceCommit(InstanceCur(i), i, mounted \ {i}, hk_lastMessage, NoSocketEvent)

\* a mounted component calls sendMessage(data)
ISendMessage ==
  /\ focus = "instances"
  /\ InstanceMayConstruct
  /\ \E i \in mounted, ctorThrows \in BOOLEAN :
       InstanceCommit(HookSendMessage(InstanceCur(i), ctorThrows), i, mounted,
                      hk_lastMessage, NoSocketEvent)

\* MIN_CONNECTION_INTERVAL has passed since the last connection attempt
IThrottleElapses ==
  /\ focus = "instances"
  /\ ws_throttled
  /\ InstanceCommit([InstanceCur(Gone) EXCEPT !.throttled = FALSE], Gone, mounted,
                    hk_lastMessage, NoSocketEvent)

\* the socket's open event
ISocketOpens ==
  /\ focus = "instances"
  /\ \E s \in HookSocketIds :
       /\ ws_readyState[s] = "CONNECTING"
       /\ LET i == handlersOf[s]
          IN  InstanceCommit(HookOnOpen([InstanceCur(i) EXCEPT !.readyState[s] = "OPEN"]),
                             i, mounted, hk_lastMessage,
                             [op |-> "open", socket |-> s])

\* the socket's close event
ISocketCloses ==
  /\ focus = "instances"
  /\ \E s \in HookSocketIds, superseded \in BOOLEAN :
       /\ ws_readyState[s] \in {"CONNECTING", "OPEN", "CLOSING"}
       /\ superseded => ws_readyState[s] # "CONNECTING"
       /\ LET i == handlersOf[s]
          IN  InstanceCommit(HookOnClose([InstanceCur(i) EXCEPT !.readyState[s] = "CLOSED"],
                                         superseded),
                             i, mounted, hk_lastMessage,
                             [op |-> "close", socket |-> s])

\* a frame arrives on the socket (no listener is registered in these
\* behaviours: dispatchMessage calls nothing)
ISocketMessage ==
  /\ focus = "instances"
  /\ \E s \in HookSocketIds, data \in InstanceFrames :
       /\ ws_readyState[s] = "OPEN"
       /\ LET i == handlersOf[s]
          IN  InstanceCommit(InstanceCur(i), i, mounted,
                             InstanceOnMessage(hk_lastMessage, i, data),
                             [op |-> "message", socket |-> s, data |-> data])

\* a pending timer fires and calls the connect of the instance that set it
ITimerFires ==
  /\ focus = "instances"
  /\ \E p \in connectOf, ctorThrows \in BOOLEAN :
       /\ ~(ws_throttled /\ p[1] \in ws_freshTimers)
       /\ (~InstanceMayConstruct =>
             (ws_throttled \/ HookReadyState(HookCur) \in {"OPEN", "CONNECTING"}
                \/ ws_isConnecting))
       /\ InstanceCommit(HookTimer(InstanceCur(p[2]), p[1], ctorThrows), p[2],
                         mounted, hk_lastMessage, NoSocketEvent)

InstanceNext ==
  \/ IMount
  \/ IUnmount
  \/ ISendMessage
  \/ IThrottleElapses
  \/ ISocketOpens
  \/ ISocketCloses
  \/ ISocketMessage
  \/ ITimerFires


ClientNext ==
  \/ CConnect
  \/ CDisconnect
  \/ CSend
  \/ CThrottleElapses
  \/ CSocketOpens
  \/ CSocketCloses
  \/ CSocketMessage
  \/ CAuthTimerFires
  \/ CHeartbeatFires
  \/ CHeartbeatTimeoutFires
  \/ CReconnectTimerFires

Init ==
  /\ focus \in {"client", "hook", "chat", "typing"}
  /\ ClientInit
  /\ HookInit
  /\ ChatInit
  /\ ProviderInit
  /\ InstanceInit

Next == ClientNext \/ HookNext \/ ChatNext

Spec == Init /\ [][Next]_vars

InitClient == Init /\ focus = "client"

InitCap ==
  focus = "cap" /\ ClientInit /\ HookInit /\ ChatInit
    /\ ProviderInit /\ InstanceInit

SpecCap == InitCap /\ [][ClientNext]_vars

SpecClient == InitClient /\ [][ClientNext]_vars

InitDispatch ==
  focus = "dispatch" /\ DispatchInit /\ HookInit /\ ChatInit
    /\ ProviderInit /\ InstanceInit

SpecDispatch == InitDispatch /\ [][DispatchNext]_vars

InitListeners ==
  focus = "listeners" /\ ClientInit /\ HookInit /\ ChatInit
    /\ ProviderInit /\ InstanceInit

SpecListeners == InitListeners /\ [][ManagerNext]_vars

InitHook == Init /\ focus = "hook"

SpecHook == InitHook /\ [][HookNext]_vars

InitChat == Init /\ focus \in {"chat", "typing"}

SpecChat == InitChat /\ [][ChatNext]_vars

InitProvider ==
  focus = "provider" /\ ClientInit /\ HookInit /\ ChatInit /\ ProviderInit
    /\ InstanceInit

SpecProvider == InitProvider /\ [][ProviderNext]_vars

\* the two reconcilers of the inbound events: ChatWindow and ChatProvider
InitReconcilers ==
  focus \in {"chat", "typing", "provider"} /\ ClientInit /\ HookInit /\ ChatInit
    /\ ProviderInit /\ InstanceInit

SpecReconcilers == InitReconcilers /\ [][ChatNext \/ ProviderNext]_vars

InitInstances ==
  focus = "instances" /\ ClientInit /\ HookInit /\ ChatInit /\ ProviderInit
    /\ InstanceInit

SpecInstances == InitInstances /\ [][InstanceNext]_vars

(* ======================= WebSocketClient claims ======================== *)

ConnectionStates == {"disconnected", "connecting", "connected", "authenticated"}

\* C1: connectionState becomes 'authenticated' only from 'connected' (the
\* last link of disconnected -> connecting -> connected -> authenticated).
C1_AuthenticatedOnlyFromConnected ==
  [][(connectionState' = "authenticated" /\ connectionState # "authenticated")
       => connectionState = "connected"]_vars

\* the frames of the queue, as the transport sees them on socket s
OnSocket(s, frames) == [i \in DOMAIN frames |-> <<s, frames[i]>>]

AllGood(frames) == \A i \in DOMAIN frames : ~frames[i].bad

\* the step is the firing of a 100 ms authentication timer
IsAuthTimerStep == authTimers' = authTimers - 1

\* C3: when the authentication timer finds the socket open and no queued frame
\* fails to serialise, the step writes the authenticate frame and then the
\* queued frames in their queue order, each once, sets the state to
\* 'authenticated' and leaves messageQueue empty; no application frame is ever
\* queued twice.
C3_NoFrameQueuedTwice ==
  \A i, j \in DOMAIN messageQueue :
    (i # j /\ messageQueue[i].id # 0) => messageQueue[i].id # messageQueue[j].id

C3_FlushStep ==
  (IsAuthTimerStep /\ IsConnected(Cur) /\ AllGood(messageQueue))
    => /\ written' = <<<<socket, AuthFrame>>>> \o OnSocket(socket, messageQueue)
       /\ messageQueue' = <<>>
       /\ connectionState' = "authenticated"

C3_QueueFlushedInOrder == [](C3_NoFrameQueuedTwice) /\ [][C3_FlushStep]_vars

C3_Witness ==
  /\ connectionState = "authenticated"
  /\ messageQueue = <<>>
  /\ Len(written) = 3
  /\ written[2][2].type = "message_reaction"
  /\ written[3][2].type = "message_reaction"
  /\ written[2][2].id < written[3][2].id

IsAppFrame(f) == f.type \in SendTypes

\* C4: no frame passed to send later is written while a frame that send
\* queued earlier (socket not open) is still waiting in messageQueue.
C4_NoOvertaking ==
  \A i \in DOMAIN written, j \in DOMAIN messageQueue :
    (IsAppFrame(written[i][2]) /\ IsAppFrame(messageQueue[j]) /\ ~messageQueue[j].bad)
      => messageQueue[j].id > written[i][2].id

\* C5: send returns false exactly when the socket is not open or the write
\* throws; it then appends the frame once unless its type is heartbeat or
\* typing, and leaves the queue alone for those; a successful send writes the
\* frame and leaves the queue alone.  The queue never holds a heartbeat or
\* typing frame.
C5_NoEphemeralQueued ==
  \A i \in DOMAIN messageQueue : messageQueue[i].type \notin Ephemeral

C5_SendStep ==
  call'.op = "send" =>
    /\ call'.ret = (IsConnected(Cur) /\ ~call'.data.bad)
    /\ call'.ret => /\ messageQueue' = messageQueue
                    /\ written' = <<<<socket, call'.data>>>>
    /\ ~call'.ret => /\ written' = <<>>
                     /\ messageQueue' =
                          IF call'.data.type \in Ephemeral
                            THEN messageQueue
                            ELSE Append(messageQueue, call'.data)

C5_SendQueuesNonEphemeral == [](C5_NoEphemeralQueued) /\ [][C5_SendStep]_vars

C5_Witness ==
  /\ call.op = "send"
  /\ ~call.ret
  /\ call.data.bad
  /\ call.data.type = "message_reaction"
  /\ \E i \in DOMAIN messageQueue : messageQueue[i] = call.data
  /\ \E i \in DOMAIN messageQueue : messageQueue[i].type = "authenticate"

\* C7: when the 10 s timer of a heartbeat fires and lastHeartbeatSent is still
\* that heartbeat's time, the state becomes 'disconnected', reconnectAttempts
\* grows by one and (up to the cap) a reconnect timer is pending; when that
\* timer runs connect, the stale socket is closed and a new one constructed
\* (or, when the constructor throws, the failure is counted as a close).
\* When the heartbeat was acknowledged, its timer changes nothing.  A socket
\* that is open while the state is 'disconnected' has a reconnect pending.
IsHeartbeatTimeoutStep(t) == t \in hbTimers /\ hbTimers' = hbTimers \ {t}

C7_TimeoutStep ==
  \A t \in hbTimers :
    IsHeartbeatTimeoutStep(t) =>
      IF lastHeartbeatSent = t
        THEN /\ connectionState' = "disconnected"
             /\ reconnectAttempts' = reconnectAttempts + 1
             /\ reconnectAttempts' <= MAX_RECONNECT_ATTEMPTS
                  => reconnectTimeout' \in reconnectTimers'
        ELSE UNCHANGED <<socket, readyState, connectionState, isConnecting,
                         reconnectAttempts, reconnectTimers, reconnectTimeout,
                         messageQueue, lastHeartbeatSent>>

C7_ReconnectStep ==
  (call'.op = "reconnectTimer" /\ IsConnected(Cur)
     /\ connectionState = "disconnected" /\ userId # 0)
    => /\ readyState'[socket] \notin {"CONNECTING", "OPEN"}
       /\ \/ nextSocket' = nextSocket + 1 /\ readyState'[socket'] = "CONNECTING"
          \/ socket' = 0 /\ reconnectAttempts' = reconnectAttempts + 1

C7_StaleHasReconnectPending ==
  (IsConnected(Cur) /\ connectionState = "disconnected"
     /\ reconnectAttempts <= MAX_RECONNECT_ATTEMPTS)
    => reconnectTimers # {}

C7_HeartbeatTimeoutReconnects ==
  /\ [](C7_StaleHasReconnectPending)
  /\ [][C7_TimeoutStep /\ C7_ReconnectStep]_vars

C7_Witness ==
  /\ IsConnected(Cur)
  /\ connectionState = "disconnected"
  /\ heartbeatInterval
  /\ lastHeartbeatSent # 0
  /\ hbTimers = {}
  /\ reconnectAttempts = 1
  /\ reconnectTimeout \in reconnectTimers
  /\ nextMsg = 1


\* C11: a connect call made while connectionState is connecting, connected or
\* authenticated opens no socket, closes none, and leaves connectionState,
\* the heartbeat interval and the message queue as they are.
C11_ConnectNoOpWhenBusy ==
  [][(call'.op = "connect"
        /\ connectionState \in {"connecting", "connected", "authenticated"})
       => UNCHANGED <<socket, readyState, nextSocket, connectionState,
                      heartbeatInterval, messageQueue>>]_vars

\* C12: a connect call that the minimum interval throttles is deferred: after
\* it a timer that re-invokes connect is pending (WebSocketClient, for a
\* disconnected client that is not connecting).
C12_ThrottledConnectDeferred ==
  [][(call'.op = "connect" /\ throttled /\ ~isConnecting
        /\ connectionState = "disconnected")
       => reconnectTimers' # {}]_vars

\* C13: while userId is null (from disconnect() on), every step but a public
\* connect call constructs no socket and leaves no socket newly connecting.
C13_NoSocketAfterDisconnect ==
  [][(userId = 0 /\ call'.op # "connect")
       => /\ nextSocket' = nextSocket
          /\ socket' = 0
          /\ \A s \in SocketIds :
               readyState'[s] = "CONNECTING" => readyState[s] = "CONNECTING"]_vars

\* after disconnect(), a reconnect timer set by a later handleClose has fired
\* and connected nothing
C13_Witness ==
  /\ call.op = "reconnectTimer"
  /\ userId = 0
  /\ socket = 0
  /\ nextSocket > 1
  /\ reconnectAttempts > 0

\* what handleClose(event) makes of the state w0: a reconnect timer is pending
\* under the handle it stored, set after the last connection attempt
SchedulesReconnect(w) ==
  /\ w.reconnectTimeout # 0
  /\ w.reconnectTimeout \in w.reconnectTimers
  /\ w.reconnectTimeout \in w.freshTimers

\* ... or the timers are as they were
SchedulesNothing(w0, w) ==
  /\ w.reconnectTimers = w0.reconnectTimers
  /\ w.reconnectTimeout = w0.reconnectTimeout
  /\ w.freshTimers = w0.freshTimers

\* C14: in every reachable state, handleClose on a socket close sets a
\* reconnect timer if and only if the close is not the supersede close and
\* reconnectAttempts has not reached MAX_RECONNECT_ATTEMPTS; the supersede
\* close sets the state to disconnected and leaves reconnectAttempts and the
\* timers alone; every other close adds exactly one to reconnectAttempts.
C14_CloseSchedulesUnlessCap ==
  focus \in ClientFocus =>
    \A kind \in CloseKinds :
      LET w == HandleClose(Cur, kind)
      IN  IF kind = "superseded"
            THEN /\ w.connectionState = "disconnected"
                 /\ w.reconnectAttempts = reconnectAttempts
                 /\ SchedulesNothing(Cur, w)
            ELSE /\ w.connectionState = "disconnected"
                 /\ w.reconnectAttempts = reconnectAttempts + 1
                 /\ IF reconnectAttempts < MAX_RECONNECT_ATTEMPTS
                      THEN SchedulesReconnect(w)
                      ELSE SchedulesNothing(Cur, w)

\* a close has found the cap reached: the counter has passed it and no timer
\* is pending, with the user still set
C14_Witness ==
  /\ focus = "cap"
  /\ reconnectAttempts = MAX_RECONNECT_ATTEMPTS + 1
  /\ connectionState = "disconnected"
  /\ userId # 0
  /\ reconnectTimers = {}

\* C19: in every step that takes connectionState into 'authenticated',
\* reconnectAttempts is 0 afterwards.
C19_ZeroAttemptsWhenAuthenticated ==
  [][(connectionState # "authenticated" /\ connectionState' = "authenticated")
       => reconnectAttempts' = 0]_vars

\* C20, for WebSocketClient: reconnectAttempts never exceeds
\* MAX_RECONNECT_ATTEMPTS.
C20_AttemptsWithinMax == reconnectAttempts <= MAX_RECONNECT_ATTEMPTS

(* ---- the subscribers of WebSocketClient *)
CallbacksOf(log) == [i \in DOMAIN log |-> log[i].callback]

Range(seq) == {seq[i] : i \in DOMAIN seq}

\* a is b with some of its elements left out
RECURSIVE IsSubSeq(_, _)
IsSubSeq(a, b) ==
  IF a = <<>> THEN TRUE
  ELSE IF b = <<>> THEN FALSE
  ELSE IF Head(a) = Head(b) THEN IsSubSeq(Tail(a), Tail(b))
  ELSE IsSubSeq(a, Tail(b))

\* the calls in log go to the callbacks registered for the type, with arg, in
\* the order of registration, and to all of them when none of them unsubscribes
\* while the type is served
ServedInOrder(log, type, arg, registered) ==
  /\ \A i \in DOMAIN log : log[i].type = type /\ log[i].arg = arg
  /\ IsSubSeq(CallbacksOf(log), registered)
  /\ "leaver" \notin Range(registered) => CallbacksOf(log) = registered

\* the calls of the step are those for one frame: first the wildcard
\* subscribers with the frame, then those of its type with typeArg
WildcardThenType(data, typeArg) ==
  \E n \in 0..Len(invoked') :
    /\ ServedInOrder(SubSeq(invoked', 1, n), "message", "frame",
                     listeners["message"])
    /\ IF data.type # ""
         THEN ServedInOrder(SubSeq(invoked', n + 1, Len(invoked')), data.type,
                            typeArg, listeners[data.type])
         ELSE n = Len(invoked')

\* C15 as stated: a heartbeat_ack frame clears lastHeartbeatSent and no
\* subscriber is called; for any other frame the wildcard subscribers are
\* called first with the frame, then the subscribers of its type with its
\* payload, each group in registration order, all within the step that
\* delivers the frame.
C15_TypeSubscribersGetPayload ==
  [][(call'.op = "message" /\ call'.data.parses) =>
       IF call'.data.type = "heartbeat_ack"
         THEN lastHeartbeatSent' = 0 /\ invoked' = <<>>
         ELSE WildcardThenType(call'.data, "payload")]_vars

\* C15, amended: as above, but the subscribers of the type are called with
\* the payload when the frame carries a truthy one, and with the frame
\* itself when its payload is absent or falsy.
C15_DispatchOrder ==
  [][(call'.op = "message" /\ call'.data.parses) =>
       IF call'.data.type = "heartbeat_ack"
         THEN lastHeartbeatSent' = 0 /\ invoked' = <<>>
         ELSE WildcardThenType(call'.data,
                               IF Truthy(call'.data.payload) THEN "payload"
                                                             ELSE "frame")]_vars

\* a frame with a payload has reached two wildcard subscribers and then two
\* subscribers of its type
C15_Witness ==
  /\ call.op = "message"
  /\ call.data.type = "new_message"
  /\ call.data.payload = "object"
  /\ Len(invoked) = 4
  /\ invoked[2].type = "message" /\ invoked[2].arg = "frame"
  /\ invoked[3].type = "new_message" /\ invoked[3].arg = "payload"
  /\ invoked[1].callback # invoked[2].callback

\* C16 (WebSocketClient.triggerEvent with off): when a frame is dispatched,
\* every callback registered on the wildcard channel and on the channel of
\* the frame's type when the dispatch starts is called exactly once, in a
\* step where subscribers may throw or unsubscribe themselves.
C16_EverySubscriberOnce ==
  [][(call'.op = "message" /\ call'.data.parses
        /\ call'.data.type # "heartbeat_ack") =>
       \E n \in 0..Len(invoked') :
         /\ CallbacksOf(SubSeq(invoked', 1, n)) = listeners["message"]
         /\ \A i \in 1..n : invoked'[i].type = "message"
         /\ IF call'.data.type # ""
              THEN /\ CallbacksOf(SubSeq(invoked', n + 1, Len(invoked')))
                        = listeners[call'.data.type]
                   /\ \A i \in (n + 1)..Len(invoked') :
                        invoked'[i].type = call'.data.type
              ELSE n = Len(invoked')]_vars

(* ========================== ChatWindow claims ========================== *)

Ids(seq) == {seq[i].id : i \in DOMAIN seq}

\* the cached sequence of chat c holds one entry per message id
UniqueIds(seq) == Cardinality(Ids(seq)) = Len(seq)

\* the latest step ran the new_message branch for the open chat
RanNewMessage ==
  /\ effectRun' \in {"received", "selected"}
  /\ lastMessage'.type = "new_message"
  /\ lastMessage'.payload.chatId = chatId'

\* C6: the cached message sequence of every chat holds one entry per message
\* id, and a new_message event for the open chat whose id the cache already
\* holds (a duplicate delivery) leaves the sequence unchanged; one whose id
\* it does not hold is appended once.
C6_UniqueIds == \A c \in Chats : UniqueIds(messages[c])

C6_NewMessageStep ==
  RanNewMessage =>
    LET c == chatId'
        p == lastMessage'.payload
    IN  IF c \in loaded /\ p.id \in Ids(messages[c])
          THEN messages' = messages
          ELSE messages' = [messages EXCEPT ![c] =
                              IF c \in loaded THEN Append(@, p) ELSE <<p>>]

C6_MessageIdsUnique == [](C6_UniqueIds) /\ [][C6_NewMessageStep]_vars

\* a new_message event was just received for the open chat whose message is
\* the first of two cached ones: it was cached before this delivery
C6_Witness ==
  /\ effectRun = "received"
  /\ lastMessage.type = "new_message"
  /\ lastMessage.payload.chatId = chatId
  /\ Len(messages[chatId]) = 2
  /\ messages[chatId][1].id = lastMessage.payload.id
  /\ messages[chatId][2].id # lastMessage.payload.id

\* C8: for a user in the typing set a typing_indicator event was received at
\* most 3 seconds ago: without a fresh indicator nothing extends the
\* membership.
C8_MembershipExpires ==
  \A u \in Users : Includes(typingUsers, u) => sinceIndicator[u] <= TYPING_EXPIRY

\* C8, the part that holds: every user has at most one expiry timer pending,
\* the one typingTimeoutRef names, and every user in the typing set has one.
C8_SingleTimer ==
  \A u \in Users :
    LET mine == {t \in typingTimers : t.user = u}
    IN  /\ Cardinality(mine) <= 1
        /\ \A t \in mine : t.h = typingTimeoutRef[u]
        /\ Includes(typingUsers, u) => mine # {}

(* ========================= useWebSocket claims ========================= *)

\* the latest step was an unexpected close event that set a reconnect timer
HookScheduled ==
  /\ ws_pendingReconnect' # 0
  /\ ws_timers' = {ws_pendingReconnect'}
  /\ ~toast'

\* ... that set no timer and showed the "Connection issue" toast
HookGaveUp ==
  /\ ws_pendingReconnect' = 0
  /\ ws_timers' = {}
  /\ toast'

\* C9 as stated: of the unexpected close events since the last open event,
\* each of the first 5 sets a reconnect timer, and the 6th sets none and
\* shows the toast.
C9_CapSinceOpen ==
  [][ws_event' = "close" =>
       /\ closesSinceOpen' <= HOOK_MAX_RECONNECT_ATTEMPTS => HookScheduled
       /\ closesSinceOpen' = HOOK_MAX_RECONNECT_ATTEMPTS + 1 => HookGaveUp]_vars

\* C9: of the unexpected close events since the last open event or
\* reconnect() call, each of the first 5 sets a reconnect timer, and the 6th
\* sets none and shows the toast.
C9_CapSinceReset ==
  [][ws_event' = "close" =>
       /\ closesSinceReset' <= HOOK_MAX_RECONNECT_ATTEMPTS => HookScheduled
       /\ closesSinceReset' = HOOK_MAX_RECONNECT_ATTEMPTS + 1 => HookGaveUp]_vars

\* the 6th unexpected close event in a row has just given up
C9_Witness ==
  /\ ws_event = "close"
  /\ closesSinceReset = HOOK_MAX_RECONNECT_ATTEMPTS + 1
  /\ ws_reconnectAttempts = HOOK_MAX_RECONNECT_ATTEMPTS
  /\ toast
  /\ ws_timers = {}

\* C12, the hook's part, which holds: a throttled connect call leaves exactly
\* one pending timer, the one in the pendingReconnect slot, and a further
\* throttled call changes nothing.
C12_HookDefers ==
  (ws_throttled /\ ~ws_isConnecting /\ HookReadyState(HookCur) \notin {"CONNECTING", "OPEN"})
    => LET w == HookConnect(HookCur, FALSE)
       IN  /\ w.timers = {w.pendingReconnect}
           /\ w.pendingReconnect # 0
           /\ HookConnect(w, FALSE) = w

(* ---- the listeners of WebSocketManager *)
\* C16, for WebSocketManager.dispatchMessage with the unsubscribe function:
\* in every reachable state, whatever frame arrives, each listener the Set of
\* its type holds is called exactly once, in insertion order, throwers and
\* self-unsubscribers among them, and no other listener is called.
C16_ManagerEveryListenerOnce ==
  \A data \in Frames :
    LET m == HookOnMessage(ManagerCur, data)
    IN  IF data.parses /\ data.type \in ListenerTypes
          THEN /\ CallbacksOf(m.invoked) = ws_listeners[data.type].set
               /\ \A i \in DOMAIN m.invoked :
                    m.invoked[i].type = data.type /\ m.invoked[i].arg = data.payload
          ELSE m.invoked = <<>>

\* the listeners map holds no type with an empty Set
NoEmptyEntry(l) == \A t \in ListenerTypes : l[t].has => l[t].set # <<>>

\* C17: in every reachable state the listeners map holds no empty Set, and
\* each unsubscribe function that registerListener has returned removes its
\* callback from the Set of its type and nothing else, keeps the others in
\* their order, leaves no empty Set behind, and changes nothing when it is
\* called again.
C17_UnsubscribeOnlyItsCallback ==
  /\ NoEmptyEntry(ws_listeners)
  /\ \A u \in ws_unsubscribe :
       LET m1 == Unsubscribe(ManagerCur, u[1], u[2])
           m2 == Unsubscribe(m1, u[1], u[2])
       IN  /\ m2.listeners = m1.listeners
           /\ \A t \in ListenerTypes \ {u[1]} : m1.listeners[t] = ws_listeners[t]
           /\ Range(m1.listeners[u[1]].set) = Range(ws_listeners[u[1]].set) \ {u[2]}
           /\ IsSubSeq(m1.listeners[u[1]].set, ws_listeners[u[1]].set)
           /\ NoEmptyEntry(m1.listeners)

\* f has been unsubscribed from both types: the thrower registered with it
\* for new_message is still there, and the entry of heartbeat_ack is gone
C17_Witness ==
  /\ <<"new_message", "f">> \in ws_unsubscribe
  /\ ws_listeners["new_message"] = [has |-> TRUE, set |-> <<"thrower">>]
  /\ <<"heartbeat_ack", "f">> \in ws_unsubscribe
  /\ ws_listeners["heartbeat_ack"] = NoEntry

(* ---- exhaustion of the hook's reconnect attempts *)
\* the attempts are exhausted: a close event has given up (the 6th
\* unexpected one in a row), and neither an open event nor reconnect() has
\* come since
Exhausted == closesSinceReset > HOOK_MAX_RECONNECT_ATTEMPTS

\* C18: while the attempts are exhausted, nothing but reconnect() constructs
\* a socket: not sendMessage, not the connect() of a mount effect, not a
\* pending timer; and reconnect() sets reconnectAttempts to 0 and starts a
\* connection attempt, at once or by the throttle's timer, unless one is
\* under way.
C18_NoSocketUntilReconnect ==
  Exhausted =>
    /\ HookSendMessage(HookCur, FALSE).nextSocket = ws_nextSocket
    /\ HookConnect(HookCur, FALSE).nextSocket = ws_nextSocket
    /\ \A h \in ws_timers : HookTimer(HookCur, h, FALSE).nextSocket = ws_nextSocket
    /\ LET r == HookReconnect(HookCur, FALSE)
       IN  /\ r.reconnectAttempts = 0
           /\ \/ r.nextSocket = ws_nextSocket + 1
              \/ r.pendingReconnect # 0
              \/ ws_isConnecting
              \/ HookReadyState(HookCur) \in {"CONNECTING", "OPEN"}

\* C18, the part about reconnect(), which holds: from a state where the
\* attempts are exhausted it sets reconnectAttempts to 0 and constructs a
\* socket, or sets the throttle's timer, unless a connection is under way.
C18_ReconnectResets ==
  Exhausted =>
    LET r == HookReconnect(HookCur, FALSE)
    IN  /\ r.reconnectAttempts = 0
        /\ \/ r.nextSocket = ws_nextSocket + 1
           \/ r.pendingReconnect # 0
           \/ ws_isConnecting
           \/ HookReadyState(HookCur) \in {"CONNECTING", "OPEN"}

\* C20, for the useWebSocket hook, which holds: ws.reconnectAttempts never
\* exceeds MAX_RECONNECT_ATTEMPTS (5).
C20_HookAttemptsWithinMax == ws_reconnectAttempts <= HOOK_MAX_RECONNECT_ATTEMPTS

(* ==================== claims about both connection managers ============ *)

Live == {"CONNECTING", "OPEN"}

\* C2: at most one socket the client created is CONNECTING or OPEN, and it is
\* the one the socket field names; the same for the sockets of the hook's
\* WebSocketManager.
C2_AtMostOneLiveSocket ==
  /\ \A s \in SocketIds : readyState[s] \in Live => s = socket
  /\ \A s \in HookSocketIds : ws_readyState[s] \in Live => s = ws_socket

\* connect has replaced a socket that was live: the old one is closing, the
\* new one connecting
C2_Witness ==
  \/ /\ focus = "client"
     /\ socket = 2 /\ readyState[2] = "CONNECTING" /\ readyState[1] = "CLOSING"
  \/ /\ focus = "hook"
     /\ ws_socket = 2 /\ ws_readyState[2] = "CONNECTING" /\ ws_readyState[1] = "CLOSING"

\* C10: at most one reconnect timer of the client is pending, and at most one
\* timer of the hook (close-retry or throttle-deferral); the pending one is
\* the one the slot names.
C10_OneReconnectTimer ==
  /\ reconnectTimers \subseteq {reconnectTimeout}
  /\ ws_timers \subseteq {ws_pendingReconnect}

\* a timer is pending while a close event is still to come, which will have
\* to cancel it before it sets its own
C10_Witness ==
  \/ /\ focus = "client"
     /\ reconnectTimers # {}
     /\ \E s \in SocketIds : readyState[s] \in Live \cup {"CLOSING"} /\ onclose[s]
  \/ /\ focus = "hook"
     /\ ws_pendingReconnect \in ws_freshTimers
     /\ \E s \in HookSocketIds : ws_readyState[s] = "CLOSING"

(* ================= WebSocketClient: shutdown and failures =============== *)

\* C21: from the return of disconnect() until the next connect that takes
\* effect (userId is null throughout), no reconnect timer, heartbeat interval
\* or heartbeat-ack timeout is pending.  handleClose, when it runs below the
\* cap, leaves a reconnect timer pending, so a run of it shows here as well.
C21_NothingPendingAfterDisconnect ==
  (userId = 0 /\ focus \in ClientFocus)
    => /\ reconnectTimers = {}
       /\ ~heartbeatInterval
       /\ hbTimers = {}

\* C22: every send that returns false has run handleClose: the state is
\* disconnected, the failure is counted, and below the cap a reconnect timer
\* is pending under the stored handle.
C22_FailedSendRunsHandleClose ==
  [][(call'.op = "send" /\ ~call'.ret)
       => /\ connectionState' = "disconnected"
          /\ ~isConnecting'
          /\ reconnectAttempts' = reconnectAttempts + 1
          /\ reconnectAttempts' <= MAX_RECONNECT_ATTEMPTS
                => reconnectTimeout' \in reconnectTimers']_vars

\* the authenticate frames among the frames a step wrote on socket s
AuthWrites(s, frames) ==
  {i \in DOMAIN frames : frames[i][1] = s /\ frames[i][2].type = "authenticate"}

\* C23: each socket that opens gets exactly one authenticate frame, ahead of
\* every other frame.  Hence no step writes two authenticate frames on one
\* socket, and a public send between the open event and the authentication
\* timer (state 'connected': nothing is written on the socket yet) writes
\* nothing.
C23_OneAuthenticateFirst ==
  [][/\ \A s \in SocketIds : Cardinality(AuthWrites(s, written')) <= 1
     /\ (call'.op = "send" /\ connectionState = "connected") => written' = <<>>]_vars

\* the step left alone what handleClose writes
NoHandleClose ==
  UNCHANGED <<connectionState, isConnecting, reconnectAttempts, reconnectTimers,
              reconnectTimeout>>

\* C26: the 10 s timer of a heartbeat runs handleClose only for the socket
\* the heartbeat was sent on: not when the current socket is one that is
\* still connecting (no heartbeat was ever sent on it), and not after
\* disconnect() (userId is null).
C26_TimeoutOnlyForItsSocket ==
  [][\A t \in hbTimers :
       (/\ IsHeartbeatTimeoutStep(t)
        /\ \/ userId = 0
           \/ socket # 0 /\ readyState[socket] = "CONNECTING")
         => NoHandleClose]_vars

\* C27: while connectionState is 'authenticated' the current socket is OPEN
\* and no reconnect timer is pending; while it is 'disconnected' no socket is
\* open that sends heartbeats (the current one, with the interval running)
\* or dispatches inbound frames (onmessage stays attached to every socket).
C27_StateAgreesWithSocket ==
  focus \in ClientFocus =>
    /\ connectionState = "authenticated"
         => IsConnected(Cur) /\ reconnectTimers = {}
    /\ connectionState = "disconnected"
         => /\ ~(IsConnected(Cur) /\ heartbeatInterval)
            /\ \A s \in SocketIds : readyState[s] # "OPEN"

(* ==================== ChatWindow: patches in place ===================== *)

\* the latest step ran the branch of the effect for an event of the type on
\* the cached sequence of the open chat (for message_edited: of the chat the
\* payload names)
RanPatch(type) ==
  /\ effectRun' \in {"received", "selected"}
  /\ lastMessage'.type = type
  /\ type = "message_edited" => lastMessage'.payload.chatId = chatId'
  /\ chatId' \in loaded

\* new holds the ids of old, in the same order
SameIds(old, new) ==
  /\ Len(new) = Len(old)
  /\ \A i \in DOMAIN old : new[i].id = old[i].id

\* new differs from old in the entries of the id alone, each of which is the
\* target written by the patch
PatchedInPlace(old, new, id, target) ==
  /\ SameIds(old, new)
  /\ \A i \in DOMAIN old :
       new[i] = IF old[i].id = id THEN target[i] ELSE old[i]

\* a delete sets isDeleted and clears content and mediaUrl, in place
C24_DeleteStep ==
  RanPatch("message_deleted") =>
    LET old == messages[chatId']
    IN  /\ PatchedInPlace(old, messages'[chatId'], lastMessage'.payload.messageId,
                          [i \in DOMAIN old |->
                             [old[i] EXCEPT !.isDeleted = TRUE, !.content = "null",
                                            !.mediaUrl = "null"]])
        /\ \A c \in Chats \ {chatId'} : messages'[c] = messages[c]

\* an edit changes the content of the target and nothing else
C24_EditContentStep ==
  RanPatch("message_edited") =>
    LET old == messages[chatId']
        p == lastMessage'.payload
    IN  /\ PatchedInPlace(old, messages'[chatId'], p.id,
                          [i \in DOMAIN old |-> [old[i] EXCEPT !.content = p.content]])
        /\ \A c \in Chats \ {chatId'} : messages'[c] = messages[c]

\* an edit puts the payload in the place of the target
C24_EditPayloadStep ==
  RanPatch("message_edited") =>
    LET old == messages[chatId']
        p == lastMessage'.payload
    IN  /\ PatchedInPlace(old, messages'[chatId'], p.id, [i \in DOMAIN old |-> p])
        /\ \A c \in Chats \ {chatId'} : messages'[c] = messages[c]

ProviderReceived(types) ==
  /\ focus = "provider"
  /\ cp_effectRun = "received"
  /\ cp_lastMessage.type \in types

\* C25: profile_update, user_status_changed, user_joined_group,
\* user_left_group and group_invitation each invalidate the chat list when
\* they are received, whichever chat is selected, or none.
C25_ChatListInvalidated ==
  ProviderReceived({"profile_update", "user_status_changed", "user_joined_group",
                    "user_left_group", "group_invitation"})
    => ChatsKey \in invalidated /\ ChatsKey \in staleQueries

\* C25 as amended: profile_update, user_status_changed and group_invitation
\* do so whichever chat is selected, or none; user_joined_group and
\* user_left_group do so exactly when the chat they name is the selected one.
C25_ChatListInvalidatedForSelected ==
  /\ ProviderReceived({"profile_update", "user_status_changed", "group_invitation"})
       => ChatsKey \in invalidated /\ ChatsKey \in staleQueries
  /\ ProviderReceived({"user_joined_group", "user_left_group"})
       => /\ ChatsKey \in invalidated
            <=> (selectedChat # 0 /\ cp_lastMessage.payload.chatId = selectedChat)
          /\ ChatsKey \in invalidated => ChatsKey \in staleQueries

\* a profile_update was just received while no chat is selected, and the
\* chat list is stale
C25_Witness ==
  /\ ProviderReceived({"profile_update"})
  /\ selectedChat = 0
  /\ invalidated = {ChatsKey}
  /\ ChatsKey \in staleQueries

(* ===================== events of a replaced socket ===================== *)

\* the step left the WebSocketClient's connection as it was: the state, the
\* retry machinery, the queue and the current socket
ClientUnaffected ==
  /\ UNCHANGED <<connectionState, isConnecting, reconnectAttempts,
                 reconnectTimers, reconnectTimeout, messageQueue>>
  /\ readyState'[socket] = readyState[socket]

\* WebSocketClient: the close of a socket other than the current one (with
\* the error event before it, when it failed), and an authentication timer
\* that fires while the current socket is still connecting (the timer is of
\* a socket that has opened, so of an earlier one), change nothing.
C28_ClientStaleEvents ==
  /\ \A s \in SocketIds :
       (socket # 0 /\ s # socket
          /\ readyState[s] # "CLOSED" /\ readyState'[s] = "CLOSED")
         => ClientUnaffected
  /\ (IsAuthTimerStep /\ socket # 0 /\ readyState[socket] = "CONNECTING")
       => ClientUnaffected

\* useWebSocket: the close event of a socket other than the current one
\* changes nothing.
C28_HookStaleEvents ==
  \A s \in HookSocketIds :
    (ws_socket # 0 /\ s # ws_socket
       /\ ws_readyState[s] # "CLOSED" /\ ws_readyState'[s] = "CLOSED")
      => UNCHANGED <<isConnected, ws_isConnecting, ws_reconnectAttempts,
                     ws_timers, ws_pendingReconnect>>

\* C28: once connect has replaced socket A by socket B, a late event or
\* timer of A changes neither connectionState nor isConnecting, closes no
\* socket, sets no reconnect timer and queues no frame, in WebSocketClient
\* and in the hook.
C28_StaleEventsIgnored == [][C28_ClientStaleEvents /\ C28_HookStaleEvents]_vars

(* ==================== the instances of useWebSocket ==================== *)

\* C29: when the shared socket (ws.socket) opens, closes or delivers a frame
\* that parses, every mounted instance of the hook has isConnected, or
\* lastMessage, updated.
C29_EveryInstanceObserves ==
  (focus = "instances" /\ hk_event.op # "none" /\ hk_event.socket = ws_socket)
    => \A i \in mounted :
         /\ hk_event.op = "open" => hk_isConnected[i]
         /\ hk_event.op = "close" => ~hk_isConnected[i]
         /\ (hk_event.op = "message" /\ hk_event.data.parses)
              => hk_lastMessage[i] = hk_event.data

(* ============== the reconcilers when the open chat changes ============= *)

\* C30: when the open chat changes while lastMessage stays as it is, neither
\* reconciler applies the event again: ChatWindow writes no message cache
\* and restarts no typing timer, ChatProvider shows no toast and invalidates
\* no query.
C30_ChatWindowAppliesOnce ==
  effectRun' = "selected"
    => UNCHANGED <<messages, loaded, typingUsers, typingTimeoutRef, typingTimers>>

C30_ChatProviderAppliesOnce ==
  cp_effectRun' = "selected" => toasts' = <<>> /\ invalidated' = {}

C30_EventAppliedOnce ==
  [][C30_ChatWindowAppliesOnce /\ C30_ChatProviderAppliesOnce]_vars
====
